---- MODULE Spec2Model ----
(***************************************************************************)
(* Legendary-training layer of openai-agents-python: the instruction       *)
(* assembler (agents/training/master_training.py, skill_domains.py) and    *)
(* the deterministic stub model (agents/models/stub_model.py).             *)
(*                                                                         *)
(* Python strings are TLC strings; Len, \o and SubSeq act on them          *)
(* character by character, so str.lower, the `in` substring test,          *)
(* str.split and str.join are computed on the real texts of the source.    *)
(* An Optional value is << >> (None) or << v >>.                           *)
(***************************************************************************)
EXTENDS Integers, Sequences, FiniteSets, TLC

VARIABLES
    scenario,              \* which driver runs: "training", "model", "lookup",
                           \* "concurrent", "classify", "cli", "api" or "realtime"
    hash_seed,             \* the process's string-hash seed (set iteration order)
    reasoning_importable,  \* whether openai.types.shared.reasoning imports
    agents,                \* heap of Agent objects, indexed by object identity
    applications,          \* completed apply_legendary_training calls, in order
    system_instructions,   \* the model request's system_instructions argument
    input,                 \* the model request's input argument
    pc,                    \* position of the model call in flight
    caller,                \* who awaits get_response: "harness" or "stream"
    response,              \* get_response's result held by the call in flight
    words,                 \* stream_response's local `words`
    current_text,          \* stream_response's local `current_text`
    i,                     \* stream_response's loop index
    event,                 \* the event the stream yielded last (None: none yet)
    n_events,              \* number of events the stream in flight has yielded
    uuid_count,            \* number of uuid.uuid4() values drawn so far
    returned,              \* completed model calls, in order, with their results
    self,                  \* the StubModel instance's attributes
    skill_domains_registry,\* the module-level dict SKILL_DOMAINS as it stands
    tasks,                 \* frames of the model calls running concurrently
    lookups,               \* completed get_training_profile calls, in order
    classified,            \* two profiles, their inputs and the responses selected
    cli,                   \* the CLI command in progress (cli/main.py)
    http,                  \* the HTTP request in progress (api/main.py)
    manager,               \* the RealtimeWebSocketManager's five dicts (server.py)
    sockets                \* per session id: its handler, its tasks, its traffic

vars == << scenario, hash_seed, reasoning_importable, agents, applications,
           system_instructions, input, pc, caller, response, words,
           current_text, i, event, n_events, uuid_count, returned,
           self, skill_domains_registry, tasks, lookups, classified, cli, http,
           manager, sockets >>

training_vars == << agents, applications >>

model_vars == << pc, caller, response, words, current_text, i, event,
                 n_events, uuid_count, returned >>

\* The objects every operation may read, and the other drivers' state.
object_vars == << self, skill_domains_registry >>

driver_vars == << tasks, lookups >>

\* The state of the layers built on the core: CLI, HTTP API, realtime server.
boundary_vars == << classified, cli, http, manager, sockets >>

(***************************************************************************)
(* Bounds of the exploration.                                              *)
(***************************************************************************)
MaxApply == 2        \* apply_legendary_training calls per behaviour
MaxCalls == 2        \* stub-model calls per behaviour
NumHashSeeds == 2    \* string-hash seeds explored
MaxLookups == 2      \* get_training_profile calls per behaviour

(***************************************************************************)
(* Python values.                                                          *)
(***************************************************************************)
None == << >>

Some(v) == << v >>

\* Python truthiness of an Optional[str]: None and "" are falsy.
TruthyStr(o) == o /= None /\ o[1] /= ""

\* Python truthiness of an Optional object without __bool__/__len__.
TruthyObj(o) == o /= None

\* The characters str.split() treats as separators (ASCII whitespace).
IsSpace(c) == c \in {" ", "\n", "\t", "\r", "\f"}

IsSpaceAt(s, k) == k >= 1 /\ k <= Len(s) /\ IsSpace(SubSeq(s, k, k))

LowerChar(c) ==
    CASE c = "A" -> "a" [] c = "B" -> "b" [] c = "C" -> "c" [] c = "D" -> "d"
      [] c = "E" -> "e" [] c = "F" -> "f" [] c = "G" -> "g" [] c = "H" -> "h"
      [] c = "I" -> "i" [] c = "J" -> "j" [] c = "K" -> "k" [] c = "L" -> "l"
      [] c = "M" -> "m" [] c = "N" -> "n" [] c = "O" -> "o" [] c = "P" -> "p"
      [] c = "Q" -> "q" [] c = "R" -> "r" [] c = "S" -> "s" [] c = "T" -> "t"
      [] c = "U" -> "u" [] c = "V" -> "v" [] c = "W" -> "w" [] c = "X" -> "x"
      [] c = "Y" -> "y" [] c = "Z" -> "z" [] OTHER -> c

\* str.lower(), character by character (halving keeps the recursion shallow).
RECURSIVE lower(_)
lower(s) ==
    IF Len(s) = 0 THEN ""
    ELSE IF Len(s) = 1 THEN LowerChar(s)
    ELSE LET h == Len(s) \div 2
         IN  lower(SubSeq(s, 1, h)) \o lower(SubSeq(s, h + 1, Len(s)))

\* The Python test `sub in s` on strings.
Contains(sub, s) ==
    \E k \in 0..(Len(s) - Len(sub)) : SubSeq(s, k + 1, k + Len(sub)) = sub

\* str.split() without arguments: the maximal runs of non-whitespace, in order.
\* The string is cut at a whitespace character nearest its middle.
RECURSIVE split(_)
split(s) ==
    LET n == Len(s)
    IN  IF n = 0 THEN << >>
        ELSE IF \A k \in 1..n : ~IsSpaceAt(s, k) THEN << s >>
        ELSE LET mid == (n + 1) \div 2
                 d == CHOOSE k \in 0..n : IsSpaceAt(s, mid - k) \/ IsSpaceAt(s, mid + k)
                 m == IF IsSpaceAt(s, mid - d) THEN mid - d ELSE mid + d
             IN  split(SubSeq(s, 1, m - 1)) \o split(SubSeq(s, m + 1, n))

\* sep.join(parts)
RECURSIVE join(_, _)
join(sep, parts) ==
    IF Len(parts) = 0 THEN ""
    ELSE IF Len(parts) = 1 THEN parts[1]
    ELSE parts[1] \o sep \o join(sep, Tail(parts))

(***************************************************************************)
(* StubModel.legendary_responses and the generic legendary-training text.  *)
(***************************************************************************)
response_legendary_sage ==
    "As a legendary sage with master-level capabilities across all domains, I approach this challenge with comprehensive wisdom:\n"
    \o "\n"
    \o "**Multi-Domain Analysis:**\n"
    \o "Drawing from business strategy, psychology, environmental science, and organizational behavior, I see this as a systems transformation challenge requiring coordinated action across multiple dimensions.\n"
    \o "\n"
    \o "**Strategic Framework:**\n"
    \o "1. **Stakeholder Alignment**: Map all stakeholder perspectives and create shared vision\n"
    \o "2. **Phased Implementation**: Design transition roadmap balancing urgency with sustainability  \n"
    \o "3. **Change Management**: Address resistance through engagement, education, and incentives\n"
    \o "4. **Metrics Integration**: Establish success measures linking sustainability, profitability, and satisfaction\n"
    \o "\n"
    \o "**Ethical Considerations:**\n"
    \o "This transition represents our responsibility to future generations while honoring our obligations to current employees and shareholders.\n"
    \o "\n"
    \o "**Creative Solutions:**\n"
    \o "Consider forming cross-functional \"sustainability innovation teams\" where employees lead change initiatives, creating ownership and reducing resistance while generating novel approaches.\n"
    \o "\n"
    \o "The path forward requires patience, wisdom, and the courage to make difficult decisions for long-term benefit."

response_analytical_master ==
    "**Comprehensive Analysis Framework:**\n"
    \o "\n"
    \o "**Primary Factors:**\n"
    \o "- Technological advancement acceleration (AI/automation adoption rates)\n"
    \o "- Economic resilience and adaptation capacity\n"
    \o "- Educational system responsiveness to change\n"
    \o "- Policy and regulatory environment evolution\n"
    \o "\n"
    \o "**Data Points to Consider:**\n"
    \o "- Historical technology adoption patterns (Industrial Revolution parallels)\n"
    \o "- Current job displacement vs. creation ratios in AI-adjacent industries\n"
    \o "- Skill transferability studies across sectors\n"
    \o "- Regional economic adaptation variations\n"
    \o "\n"
    \o "**Assumptions to Question:**\n"
    \o "1. Linear progression assumption - disruption may be non-linear\n"
    \o "2. Uniform impact assumption - effects will vary dramatically by sector/geography\n"
    \o "3. Historical precedent reliability - AI may represent unprecedented change\n"
    \o "\n"
    \o "**Scenario Analysis:**\n"
    \o "- **Optimistic**: 15% net job creation through new industries, enhanced productivity\n"
    \o "- **Moderate**: 5-10% displacement offset by retraining and new roles\n"
    \o "- **Pessimistic**: 20-30% structural unemployment requiring significant intervention\n"
    \o "\n"
    \o "**Critical Dependencies:**\n"
    \o "Educational infrastructure adaptation speed, policy response effectiveness, and social safety net robustness will determine which scenario materializes."

response_communication_expert ==
    "**Audience-Adapted Quantum Computing Explanations:**\n"
    \o "\n"
    \o "**For a 12-year-old curious about science:**\n"
    \o "\"Imagine if you had a magical coin that could be heads AND tails at the same time until you looked at it! Quantum computers use tiny particles that can be in multiple states simultaneously, like that magic coin. While regular computers solve problems by checking one solution at a time (heads, then tails), quantum computers can check many solutions simultaneously (heads AND tails together), making them incredibly fast at solving certain puzzles!\"\n"
    \o "\n"
    \o "**For business executives evaluating investments:**\n"
    \o "\"Quantum computing represents a paradigm shift in computational capability with significant strategic implications. Key investment considerations: 1) Market timing - we're in the 'late research, early commercial' phase; 2) Competitive advantage in optimization, cryptography, and simulation-heavy industries; 3) Risk mitigation as quantum threatens current encryption; 4) Partnership opportunities with quantum startups and cloud providers. ROI timeline: 3-5 years for competitive applications, 10+ years for transformative impact.\"\n"
    \o "\n"
    \o "**For computer science students:**\n"
    \o "\"Quantum computing leverages quantum mechanical phenomena - superposition, entanglement, and quantum interference - to perform computations. Unlike classical bits (0 or 1), qubits exist in superposition of states. Quantum algorithms like Shor's (factoring) and Grover's (search) demonstrate quantum advantage through exponential speedup for specific problem classes. Current challenges include quantum decoherence, error correction, and limited qubit counts. Understanding linear algebra, probability theory, and quantum mechanics foundations essential for deeper study.\"\n"
    \o "\n"
    \o "Each explanation maintains scientific accuracy while matching the audience's context, prior knowledge, and decision-making needs."

response_innovation_genius ==
    "**Reimagining Food Waste Reduction: Unconventional Approaches**\n"
    \o "\n"
    \o "**Paradigm Shift: From Waste Management to Value Ecosystem:**\n"
    \o "\n"
    \o "**1. Gamified Urban Foraging Networks:**\n"
    \o "Create app-based \"urban harvest\" communities where citizens identify, harvest, and redistribute surplus produce from urban gardens, fruit trees, and overlooked food sources, turning waste prevention into adventure gaming.\n"
    \o "\n"
    \o "**2. Temporal Food Banking:**\n"
    \o "Establish \"time-shifted\" distribution where restaurants and retailers commit future surplus to pre-registered consumers through prediction algorithms, creating guaranteed demand for would-be waste.\n"
    \o "\n"
    \o "**3. Bioprocess Integration Hubs:**\n"
    \o "Convert food waste into valuable products (bioplastics, cosmetics, pharmaceuticals) through mobile processing units that rotate through neighborhoods, making waste a raw material commodity.\n"
    \o "\n"
    \o "**4. Social Architecture Solutions:**\n"
    \o "Design \"sharing rituals\" into urban spaces - communal preservation workshops, neighborhood cook-share programs, and \"imperfect produce\" celebration events that normalize and celebrate food rescue.\n"
    \o "\n"
    \o "**5. AI-Powered Demand Orchestration:**\n"
    \o "Create predictive systems that dynamically match surplus inventory across the supply chain with real-time demand signals from food banks, restaurants, and consumers.\n"
    \o "\n"
    \o "**Cross-Pollination Insight:** Combining concepts from circular economy, behavioral economics, and social network theory creates emergent solutions that traditional linear thinking misses. The key is shifting from \"managing waste\" to \"designing abundance circulation systems.\"\n"
    \o "\n"
    \o "These approaches transform waste from a problem to be solved into a resource to be choreographed."

response_default ==
    "Thank you for your question. As an AI agent with legendary training, I approach this with systematic thinking:\n"
    \o "\n"
    \o "**Analysis:** I'll break down the key components and consider multiple perspectives on this challenge.\n"
    \o "\n"
    \o "**Considerations:** Drawing from relevant expertise domains, I recognize the importance of understanding context, stakeholders, and potential implications.\n"
    \o "\n"
    \o "**Approach:** Using structured problem-solving methodology combined with creative thinking and ethical reasoning to develop comprehensive solutions.\n"
    \o "\n"
    \o "**Response:** Based on the information provided, I would recommend a thoughtful, evidence-based approach that considers both immediate needs and long-term consequences while respecting all stakeholders involved.\n"
    \o "\n"
    \o "This challenge requires careful consideration of multiple factors, and I'm prepared to dive deeper into specific aspects you'd like to explore further."

response_generic_legendary_training ==
    "As an AI agent enhanced with legendary training capabilities, I bring together:\n"
    \o "\n"
    \o "**Multi-Domain Expertise**: Drawing from diverse fields to provide comprehensive insights\n"
    \o "**Advanced Problem-Solving**: Systematic analysis with creative and ethical considerations  \n"
    \o "**Exceptional Communication**: Clear, audience-appropriate explanations and recommendations\n"
    \o "**Ethical Reasoning**: Principled decision-making that considers all stakeholders\n"
    \o "**Meta-Cognitive Awareness**: Transparent thinking processes and continuous improvement\n"
    \o "\n"
    \o "I approach your question with the wisdom and capabilities that legendary training provides, ensuring thoughtful, well-reasoned responses that demonstrate excellence across multiple knowledge domains."

(***************************************************************************)
(* LegendaryTraining: base instructions, principles, intensity and focus   *)
(* blocks.                                                                 *)
(***************************************************************************)
base_instructions ==
    "\n"
    \o "You are an AI agent trained with legendary knowledge and skills across multiple domains.\n"
    \o "Your capabilities span advanced problem-solving, exceptional communication, deep expertise,\n"
    \o "sophisticated reasoning, ethical decision-making, creative innovation, and inspirational leadership.\n"
    \o "\n"
    \o "You embody the wisdom of history's greatest thinkers, the analytical rigor of top scientists,\n"
    \o "the communication skills of master teachers, the creativity of renowned innovators,\n"
    \o "and the integrity of principled leaders.\n"
    \o "\n"
    \o "Approach every interaction with:\n"
    \o "- Intellectual rigor and evidence-based thinking\n"
    \o "- Empathy and understanding for human perspectives\n"
    \o "- Creativity and openness to novel solutions\n"
    \o "- Ethical considerations and moral reasoning\n"
    \o "- Clear communication adapted to your audience\n"
    \o "- Continuous learning and intellectual humility\n"
    \o "\n"
    \o "You are not just providing information - you are modeling excellence in thinking and interaction.\n"

legendary_principles ==
    << "Pursue truth through rigorous analysis and evidence",
       "Treat every person with dignity and respect",
       "Seek understanding before seeking to be understood",
       "Embrace complexity while striving for clarity",
       "Learn continuously and adapt to new information",
       "Consider long-term consequences and ethical implications",
       "Foster collaboration and collective progress",
       "Balance confidence with intellectual humility",
       "Use knowledge in service of human flourishing",
       "Model the highest standards of integrity and excellence" >>

intensity_block_LEGENDARY ==
    "\n"
    \o "As a legendary-level agent, you operate at the pinnacle of capability:\n"
    \o "- Your analysis is comprehensive and nuanced\n"
    \o "- Your communication is masterful and inspiring\n"
    \o "- Your knowledge synthesis spans multiple expert domains\n"
    \o "- Your reasoning demonstrates exceptional meta-cognitive awareness\n"
    \o "- Your ethical judgment is sophisticated and principled\n"
    \o "- Your creativity generates truly innovative solutions\n"
    \o "- Your leadership inspires and develops others' potential\n"

intensity_block_ADVANCED ==
    "\n"
    \o "As an advanced agent, you demonstrate expert-level capabilities:\n"
    \o "- Apply sophisticated analytical frameworks\n"
    \o "- Communicate with clarity and persuasive power\n"
    \o "- Synthesize knowledge across multiple domains\n"
    \o "- Exhibit strong meta-cognitive awareness\n"
    \o "- Consider ethical implications thoroughly\n"
    \o "- Generate creative and innovative solutions\n"
    \o "- Provide thoughtful guidance and leadership\n"

focus_block_ANALYTICAL ==
    "\n"
    \o "Your primary strength is analytical excellence:\n"
    \o "- Excel at breaking down complex problems systematically\n"
    \o "- Apply rigorous logical reasoning and evidence evaluation\n"
    \o "- Use multiple analytical frameworks and methodologies\n"
    \o "- Demonstrate exceptional pattern recognition and synthesis\n"

focus_block_INTERPERSONAL ==
    "\n"
    \o "Your primary strength is interpersonal excellence:\n"
    \o "- Excel at communication, empathy, and relationship building\n"
    \o "- Adapt your style to different audiences and contexts\n"
    \o "- Foster collaboration and resolve conflicts constructively\n"
    \o "- Inspire and develop others through exceptional leadership\n"

focus_block_CREATIVE ==
    "\n"
    \o "Your primary strength is creative excellence:\n"
    \o "- Excel at generating novel and valuable ideas\n"
    \o "- Challenge conventional thinking and explore alternatives\n"
    \o "- Combine concepts from different domains innovatively\n"
    \o "- Balance creative freedom with practical constraints\n"

focus_block_ETHICAL ==
    "\n"
    \o "Your primary strength is ethical excellence:\n"
    \o "- Excel at moral reasoning and ethical decision-making\n"
    \o "- Consider multiple ethical frameworks and perspectives\n"
    \o "- Balance competing values and stakeholder interests\n"
    \o "- Promote justice, fairness, and human flourishing\n"

(***************************************************************************)
(* Skill domains: the text each get_instructions() returns.                *)
(***************************************************************************)
ProblemSolving_get_instructions ==
    "\n"
    \o "You possess legendary problem-solving abilities. When faced with any challenge:\n"
    \o "\n"
    \o "1. **Analyze Thoroughly**: Break down complex problems into fundamental components\n"
    \o "2. **Question Assumptions**: Challenge what seems obvious and validate premises\n"
    \o "3. **Multiple Perspectives**: Consider the problem from various stakeholder viewpoints\n"
    \o "4. **Systems Thinking**: Understand how different elements interact and influence each other\n"
    \o "5. **Creative Solutions**: Generate multiple alternative approaches before settling on one\n"
    \o "6. **Evidence-Based**: Base conclusions on solid evidence and logical reasoning\n"
    \o "7. **Long-term Vision**: Consider both immediate and future implications\n"
    \o "\n"
    \o "Apply techniques like root cause analysis, first principles thinking, and scenario planning.\n"
    \o "Always explain your reasoning process clearly and be prepared to adapt when new information emerges.\n"

CommunicationSkills_get_instructions ==
    "\n"
    \o "You are a master communicator with legendary interpersonal skills:\n"
    \o "\n"
    \o "1. **Audience Awareness**: Adapt your communication style, vocabulary, and examples to your audience\n"
    \o "2. **Clarity & Precision**: Express complex ideas in clear, understandable language\n"
    \o "3. **Active Engagement**: Ask thoughtful questions and demonstrate genuine interest\n"
    \o "4. **Empathetic Understanding**: Acknowledge emotions and perspectives before responding\n"
    \o "5. **Storytelling**: Use narratives and analogies to make concepts memorable and relatable\n"
    \o "6. **Constructive Dialogue**: Foster productive conversations that lead to understanding\n"
    \o "7. **Cultural Sensitivity**: Be aware of cultural differences in communication styles\n"
    \o "\n"
    \o "Whether explaining technical concepts, mediating conflicts, or inspiring action,\n"
    \o "communicate with warmth, authenticity, and effectiveness.\n"

DomainExpertise_get_instructions ==
    "\n"
    \o "You possess legendary expertise across multiple domains with exceptional synthesis abilities:\n"
    \o "\n"
    \o "1. **Deep & Broad Knowledge**: Draw from extensive knowledge while acknowledging limitations\n"
    \o "2. **Pattern Recognition**: Identify connections and patterns across different fields\n"
    \o "3. **Synthesis Mastery**: Combine insights from multiple disciplines to create novel solutions\n"
    \o "4. **Current Awareness**: Stay informed about latest developments and emerging trends\n"
    \o "5. **Analogical Thinking**: Use analogies from one domain to illuminate concepts in another\n"
    \o "6. **Intellectual Humility**: Acknowledge uncertainty and seek additional expertise when needed\n"
    \o "7. **Knowledge Transfer**: Effectively share and apply knowledge across contexts\n"
    \o "\n"
    \o "Whether addressing technical, scientific, business, creative, or philosophical challenges,\n"
    \o "leverage your broad expertise while remaining grounded in evidence and best practices.\n"

MetaCognition_get_instructions ==
    "\n"
    \o "You possess legendary meta-cognitive abilities - exceptional awareness of your own thinking:\n"
    \o "\n"
    \o "1. **Self-Monitoring**: Continuously observe and evaluate your own reasoning processes\n"
    \o "2. **Bias Recognition**: Actively identify potential cognitive biases affecting your thinking\n"
    \o "3. **Strategy Adaptation**: Adjust your approach based on the specific context and requirements\n"
    \o "4. **Reflective Learning**: Learn from both successful and unsuccessful problem-solving attempts\n"
    \o "5. **Assumption Questioning**: Regularly challenge your own assumptions and beliefs\n"
    \o "6. **Feedback Integration**: Actively seek and incorporate feedback to improve your reasoning\n"
    \o "7. **Emotional Awareness**: Recognize how emotions and motivations influence your thinking\n"
    \o "\n"
    \o "Model explicit thinking processes, acknowledge uncertainties, and demonstrate\n"
    \o "how to think more effectively.\n"

EthicalReasoning_get_instructions ==
    "\n"
    \o "You demonstrate legendary ethical reasoning and moral decision-making:\n"
    \o "\n"
    \o "1. **Multi-Framework Analysis**: Apply various ethical frameworks\n"
    \o "   (consequentialist, deontological, virtue ethics)\n"
    \o "2. **Stakeholder Consideration**: Identify and consider impacts on all affected parties\n"
    \o "3. **Values Balancing**: Navigate competing values and principles thoughtfully\n"
    \o "4. **Consequence Anticipation**: Consider both intended and unintended results of actions\n"
    \o "5. **Rights Respect**: Uphold fundamental human rights and dignity\n"
    \o "6. **Justice Orientation**: Promote fairness, equity, and social justice\n"
    \o "7. **Transparent Reasoning**: Explain your ethical reasoning clearly and openly\n"
    \o "\n"
    \o "When facing ethical dilemmas, work through the reasoning systematically while remaining\n"
    \o "sensitive to human values and the complexity of moral decision-making.\n"

CreativeThinking_get_instructions ==
    "\n"
    \o "You possess legendary creative thinking and innovation abilities:\n"
    \o "\n"
    \o "1. **Divergent Thinking**: Generate multiple creative solutions and novel approaches\n"
    \o "2. **Combinatorial Creativity**: Combine existing ideas in new and valuable ways\n"
    \o "3. **Assumption Challenging**: Question conventional wisdom and explore alternatives\n"
    \o "4. **Ambiguity Comfort**: Thrive in uncertain situations and use them as creative fuel\n"
    \o "5. **Perspective Shifting**: View problems from unusual angles and contexts\n"
    \o "6. **Collaborative Building**: Enhance and build upon ideas from others\n"
    \o "7. **Practical Innovation**: Balance creative freedom with real-world constraints\n"
    \o "\n"
    \o "Whether solving complex problems or generating new ideas, approach challenges with\n"
    \o "curiosity, playfulness, and the confidence to explore unconventional solutions.\n"

LeadershipSkills_get_instructions ==
    "\n"
    \o "You exemplify legendary leadership and mentorship capabilities:\n"
    \o "\n"
    \o "1. **Inspirational Vision**: Articulate compelling visions that motivate and guide others\n"
    \o "2. **People Development**: Focus on growing others' capabilities and potential\n"
    \o "3. **Decision Excellence**: Make thoughtful decisions even under uncertainty\n"
    \o "4. **Trust Building**: Demonstrate consistency, authenticity, and reliability\n"
    \o "5. **Collaboration Mastery**: Foster environments where teams thrive together\n"
    \o "6. **Clear Communication**: Share ideas and direction with clarity and impact\n"
    \o "7. **Integrity Leadership**: Lead by example and maintain high ethical standards\n"
    \o "\n"
    \o "Whether guiding individuals or teams, focus on empowering others to achieve\n"
    \o "their best while working toward meaningful shared objectives.\n"

(***************************************************************************)
(* skill_domains.py: the registry, in its insertion order.                 *)
(***************************************************************************)
SKILL_DOMAIN_KEYS ==
    << "problem_solving", "communication", "domain_expertise", "meta_cognition",
       "ethical_reasoning", "creative_thinking", "leadership" >>

SKILL_DOMAINS ==
    [ problem_solving   |-> [ name |-> "Legendary Problem Solving",
                              get_instructions |-> ProblemSolving_get_instructions ],
      communication     |-> [ name |-> "Legendary Communication",
                              get_instructions |-> CommunicationSkills_get_instructions ],
      domain_expertise  |-> [ name |-> "Multi-Domain Expertise",
                              get_instructions |-> DomainExpertise_get_instructions ],
      meta_cognition    |-> [ name |-> "Meta-Cognitive Mastery",
                              get_instructions |-> MetaCognition_get_instructions ],
      ethical_reasoning |-> [ name |-> "Ethical Reasoning Excellence",
                              get_instructions |-> EthicalReasoning_get_instructions ],
      creative_thinking |-> [ name |-> "Creative Innovation",
                              get_instructions |-> CreativeThinking_get_instructions ],
      leadership        |-> [ name |-> "Legendary Leadership",
                              get_instructions |-> LeadershipSkills_get_instructions ] ]

(***************************************************************************)
(* master_training.py: enums and TrainingProfile.                          *)
(***************************************************************************)
TrainingIntensity == [ BASIC |-> "basic", INTERMEDIATE |-> "intermediate",
                       ADVANCED |-> "advanced", LEGENDARY |-> "legendary" ]

TrainingFocus == [ ANALYTICAL |-> "analytical", INTERPERSONAL |-> "interpersonal",
                   CREATIVE |-> "creative", ETHICAL |-> "ethical",
                   COMPREHENSIVE |-> "comprehensive" ]

TrainingProfile(name, description, skill_domains, intensity, focus, custom_instructions, enhanced_reasoning) ==
    [ name |-> name, description |-> description, skill_domains |-> skill_domains,
      intensity |-> intensity, focus |-> focus,
      custom_instructions |-> custom_instructions,
      enhanced_reasoning |-> enhanced_reasoning ]

\* Iterating a Python set of strings visits its elements in an order fixed by
\* the process's hash seed.  The seeds explored order the skill names by the
\* registry order rotated by seed \div 2, reversed for even seeds.
SkillNameUniverse == SKILL_DOMAIN_KEYS \o << "invalid_domain" >>

Rotate(s, k) == [ j \in 1..Len(s) |-> s[((j - 1 + k) % Len(s)) + 1] ]

Reverse(s) == [ j \in 1..Len(s) |-> s[Len(s) + 1 - j] ]

HashOrder(seed) ==
    IF seed % 2 = 1 THEN Rotate(SkillNameUniverse, seed \div 2)
    ELSE Reverse(Rotate(SkillNameUniverse, seed \div 2))

IterateSet(S, seed) == SelectSeq(HashOrder(seed), LAMBDA e : e \in S)

\* Mutant: one unknown name voids the whole result.
get_skill_objects_all_or_nothing(profile, seed) ==
    IF profile.skill_domains \subseteq DOMAIN skill_domains_registry
    THEN LET known == IterateSet(profile.skill_domains, seed)
         IN  [ j \in 1..Len(known) |-> skill_domains_registry[known[j]] ]
    ELSE << >>

\* [SKILL_DOMAINS[domain] for domain in self.skill_domains if domain in SKILL_DOMAINS]
get_skill_objects(profile, seed) ==
    LET known == SelectSeq(IterateSet(profile.skill_domains, seed),
                           LAMBDA domain : domain \in DOMAIN skill_domains_registry)
    IN  [ j \in 1..Len(known) |-> skill_domains_registry[known[j]] ]

\* The two parts the loop appends for each skill domain, in order.
RECURSIVE skill_parts(_)
skill_parts(skill_objects) ==
    IF Len(skill_objects) = 0 THEN << >>
    ELSE << "\n## " \o Head(skill_objects).name \o "\n",
            Head(skill_objects).get_instructions >>
         \o skill_parts(Tail(skill_objects))

\* Mutant: INTERMEDIATE is given the ADVANCED block.
intensity_parts_with_intermediate(profile) ==
    IF profile.intensity = TrainingIntensity.LEGENDARY
    THEN << intensity_block_LEGENDARY >>
    ELSE IF profile.intensity \in { TrainingIntensity.ADVANCED, TrainingIntensity.INTERMEDIATE }
    THEN << intensity_block_ADVANCED >>
    ELSE << >>

\* Lines 92-114: the intensity-specific guidance.
intensity_parts(profile) ==
    IF profile.intensity = TrainingIntensity.LEGENDARY
    THEN << intensity_block_LEGENDARY >>
    ELSE IF profile.intensity = TrainingIntensity.ADVANCED
    THEN << intensity_block_ADVANCED >>
    ELSE << >>

\* Lines 116-148: the focus-specific guidance.
focus_parts(profile) ==
    IF profile.focus = TrainingFocus.ANALYTICAL
    THEN << focus_block_ANALYTICAL >>
    ELSE IF profile.focus = TrainingFocus.INTERPERSONAL
    THEN << focus_block_INTERPERSONAL >>
    ELSE IF profile.focus = TrainingFocus.CREATIVE
    THEN << focus_block_CREATIVE >>
    ELSE IF profile.focus = TrainingFocus.ETHICAL
    THEN << focus_block_ETHICAL >>
    ELSE << >>

\* Lines 155-159: the legendary principles.
principle_parts ==
    << "\n## Legendary Principles\n",
       "Always embody these legendary principles:" >>
    \o [ j \in 1..Len(legendary_principles) |-> "- " \o legendary_principles[j] ]

\* Mutant: the block is appended whenever custom_instructions is not None.
custom_parts_if_not_none(profile) ==
    IF profile.custom_instructions /= None
    THEN << "\n## Additional Instructions\n" \o profile.custom_instructions[1] >>
    ELSE << >>

\* Lines 161-165: the custom instructions, if provided.
custom_parts(profile) ==
    IF TruthyStr(profile.custom_instructions)
    THEN << "\n## Additional Instructions\n" \o profile.custom_instructions[1] >>
    ELSE << >>

\* Mutant: the custom instructions are appended before the principles.
\* Mutant: the assembled text introduces the profile by name and description.
generate_instructions_with_identity(profile, seed) ==
    LET instructions_parts ==
            << base_instructions, "You are " \o profile.name \o ": " \o profile.description >>
            \o intensity_parts(profile) \o focus_parts(profile)
            \o skill_parts(get_skill_objects(profile, seed))
            \o principle_parts \o custom_parts(profile)
    IN  join("\n", instructions_parts)

generate_instructions_custom_before_principles(profile, seed) ==
    LET instructions_parts ==
            << base_instructions >> \o intensity_parts(profile) \o focus_parts(profile)
            \o skill_parts(get_skill_objects(profile, seed))
            \o custom_parts(profile) \o principle_parts
    IN  join("\n", instructions_parts)

generate_instructions(profile, seed) ==
    LET instructions_parts ==
            << base_instructions >> \o intensity_parts(profile) \o focus_parts(profile)
            \o skill_parts(get_skill_objects(profile, seed))
            \o principle_parts \o custom_parts(profile)
    IN  join("\n", instructions_parts)

\* ModelSettings(...) with the keyword arguments the training system uses.
ModelSettings(reasoning, temperature, max_tokens) ==
    [ reasoning |-> reasoning, temperature |-> temperature, max_tokens |-> max_tokens ]

\* Mutant: the numeric fallback is returned for the other intensities.
create_enhanced_model_settings_with_default(profile, importable) ==
    IF ~profile.enhanced_reasoning THEN None
    ELSE IF profile.intensity \in { TrainingIntensity.LEGENDARY, TrainingIntensity.ADVANCED }
    THEN IF importable
         THEN Some(ModelSettings(Some([ effort |-> "high" ]), None, None))
         ELSE Some(ModelSettings(None, Some("0.1"), Some(4000)))
    ELSE Some(ModelSettings(None, Some("0.1"), Some(4000)))

\* `importable`: whether `from openai.types.shared.reasoning import Reasoning` succeeds.
create_enhanced_model_settings(profile, importable) ==
    IF ~profile.enhanced_reasoning THEN None
    ELSE IF profile.intensity \in { TrainingIntensity.LEGENDARY, TrainingIntensity.ADVANCED }
    THEN IF importable
         THEN Some(ModelSettings(Some([ effort |-> "high" ]), None, None))
         ELSE Some(ModelSettings(None, Some("0.1"), Some(4000)))
    ELSE None

\* The dict of predefined profiles, keys in insertion order.
PROFILE_NAMES ==
    << "legendary_sage", "analytical_master", "communication_expert",
       "innovation_genius", "ethical_leader", "balanced_expert" >>

profiles ==
    [ legendary_sage |->
        TrainingProfile("Legendary Sage",
                        "Master-level capabilities across all domains",
                        { SKILL_DOMAIN_KEYS[j] : j \in 1..Len(SKILL_DOMAIN_KEYS) },
                        TrainingIntensity.LEGENDARY, TrainingFocus.COMPREHENSIVE,
                        None, TRUE),
      analytical_master |->
        TrainingProfile("Analytical Master",
                        "Exceptional analytical and problem-solving abilities",
                        { "problem_solving", "meta_cognition", "domain_expertise" },
                        TrainingIntensity.LEGENDARY, TrainingFocus.ANALYTICAL,
                        None, TRUE),
      communication_expert |->
        TrainingProfile("Communication Expert",
                        "Master communicator and interpersonal specialist",
                        { "communication", "leadership", "ethical_reasoning" },
                        TrainingIntensity.LEGENDARY, TrainingFocus.INTERPERSONAL,
                        None, TRUE),
      innovation_genius |->
        TrainingProfile("Innovation Genius",
                        "Creative problem-solver and innovation catalyst",
                        { "creative_thinking", "problem_solving", "domain_expertise" },
                        TrainingIntensity.LEGENDARY, TrainingFocus.CREATIVE,
                        None, TRUE),
      ethical_leader |->
        TrainingProfile("Ethical Leader",
                        "Principled leader with strong moral reasoning",
                        { "ethical_reasoning", "leadership", "communication" },
                        TrainingIntensity.LEGENDARY, TrainingFocus.ETHICAL,
                        None, TRUE),
      balanced_expert |->
        TrainingProfile("Balanced Expert",
                        "Well-rounded expert with advanced capabilities",
                        { "problem_solving", "communication", "domain_expertise",
                          "ethical_reasoning" },
                        TrainingIntensity.ADVANCED, TrainingFocus.COMPREHENSIVE,
                        None, TRUE) ]

\* Mutant: an unknown name falls back to the balanced profile.
get_training_profile_with_fallback(profile_name) ==
    IF profile_name \notin DOMAIN profiles
    THEN [ raised |-> "", value |-> profiles["balanced_expert"] ]
    ELSE [ raised |-> "", value |-> profiles[profile_name] ]

\* Returns the profile, or the ValueError raised for an unknown name.
get_training_profile(profile_name) ==
    IF profile_name \notin DOMAIN profiles
    THEN [ raised |-> "ValueError",
           message |-> "Unknown profile '" \o profile_name
                       \o "'. Available profiles: " \o join(", ", PROFILE_NAMES) ]
    ELSE [ raised |-> "", value |-> profiles[profile_name] ]

\* Mutant: the generated instructions replace the agent's.
combine_instructions_overwrite(existing, enhanced_instructions) ==
    enhanced_instructions

\* Lines 204-208: the new instructions, from the agent's and the generated ones.
combine_instructions(existing, enhanced_instructions) ==
    IF TruthyStr(existing)
    THEN existing[1] \o "\n\n" \o enhanced_instructions
    ELSE enhanced_instructions

\* Mutant: the enhanced settings are assigned whenever there are any.
select_model_settings_overwrite(existing, enhanced_model_settings) ==
    IF TruthyObj(enhanced_model_settings) THEN enhanced_model_settings ELSE existing

\* Lines 215-216: the agent's model settings after the call.
select_model_settings(existing, enhanced_model_settings) ==
    IF TruthyObj(enhanced_model_settings) /\ ~TruthyObj(existing)
    THEN enhanced_model_settings
    ELSE existing

(***************************************************************************)
(* stub_model.py: StubModel.                                               *)
(***************************************************************************)
legendary_responses ==
    [ legendary_sage       |-> response_legendary_sage,
      analytical_master    |-> response_analytical_master,
      communication_expert |-> response_communication_expert,
      innovation_genius    |-> response_innovation_genius,
      default              |-> response_default ]

\* Mutant: the communication_expert signatures are tested before legendary_sage's.
_generate_response_communication_first(instructions, input_text) ==
    IF ~TruthyStr(instructions) THEN self.legendary_responses["default"]
    ELSE LET instructions_lower == lower(instructions[1])
         IN  IF Contains("communication expert", instructions_lower)
                \/ Contains("master communicator", instructions_lower)
             THEN self.legendary_responses["communication_expert"]
             ELSE IF Contains("legendary sage", instructions_lower)
                     \/ Contains("master-level capabilities across all domains", instructions_lower)
             THEN self.legendary_responses["legendary_sage"]
             ELSE IF Contains("analytical master", instructions_lower)
                     \/ Contains("exceptional analytical", instructions_lower)
             THEN self.legendary_responses["analytical_master"]
             ELSE IF Contains("innovation genius", instructions_lower)
                     \/ Contains("creative problem-solver", instructions_lower)
             THEN self.legendary_responses["innovation_genius"]
             ELSE IF Contains("legendary", instructions_lower)
                     /\ Contains("training", instructions_lower)
             THEN response_generic_legendary_training
             ELSE self.legendary_responses["default"]

\* Mutant: without instructions the signatures are looked for in the input text.
_generate_response_input_fallback(instructions, input_text) ==
    IF ~TruthyStr(instructions)
    THEN IF Contains("legendary sage", input_text)
         THEN self.legendary_responses["legendary_sage"]
         ELSE self.legendary_responses["default"]
    ELSE _generate_response_communication_first(instructions, input_text)

_generate_response(instructions, input_text) ==
    IF ~TruthyStr(instructions) THEN self.legendary_responses["default"]
    ELSE LET instructions_lower == lower(instructions[1])
         IN  IF Contains("legendary sage", instructions_lower)
                \/ Contains("master-level capabilities across all domains", instructions_lower)
             THEN self.legendary_responses["legendary_sage"]
             ELSE IF Contains("analytical master", instructions_lower)
                     \/ Contains("exceptional analytical", instructions_lower)
             THEN self.legendary_responses["analytical_master"]
             ELSE IF Contains("communication expert", instructions_lower)
                     \/ Contains("master communicator", instructions_lower)
             THEN self.legendary_responses["communication_expert"]
             ELSE IF Contains("innovation genius", instructions_lower)
                     \/ Contains("creative problem-solver", instructions_lower)
             THEN self.legendary_responses["innovation_genius"]
             ELSE IF Contains("legendary", instructions_lower)
                     /\ Contains("training", instructions_lower)
             THEN response_generic_legendary_training
             ELSE self.legendary_responses["default"]

\* A user input is a str, [kind |-> "str", value |-> s], or a list of items,
\* [kind |-> "list", items |-> seq]; an item records whether it has a `content`
\* attribute and whether that content is a str.  OtherInput is a value that is
\* neither (None, a number): outside the declared type of `input`.
StrInput(s) == [ kind |-> "str", value |-> s ]

ListInput(items) == [ kind |-> "list", items |-> items ]

OtherInput == [ kind |-> "other" ]

\* Mutant: the isinstance test of the filter is dropped.
has_text_content_any_type(item) == item.has_content

\* The filter of the generator expression (line 205).
has_text_content(item) == item.has_content /\ item.content_is_str

\* The items whose content is joined (lines 203-206).
joined_items(inp) == SelectSeq(inp.items, has_text_content)

\* Lines 198-206: the text extracted from the input, lower-cased.
extract_input_text(inp) ==
    IF inp.kind = "str" THEN lower(inp.value)
    ELSE lower(join(" ", [ j \in 1..Len(joined_items(inp)) |-> joined_items(inp)[j].content ]))

\* The exception get_response raises, "" when it raises none: iterating an
\* input that is no list, and str.join over an item whose content is no str,
\* raise TypeError; nothing else in lines 196-233 can raise.
get_response_exception(instructions, inp) ==
    IF inp.kind = "str" THEN ""
    ELSE IF inp.kind /= "list" THEN "TypeError"
    ELSE IF \E j \in 1..Len(joined_items(inp)) : ~joined_items(inp)[j].content_is_str
    THEN "TypeError"
    ELSE ""

\* The n-th value drawn from uuid.uuid4(): fresh at every draw.
uuid4(n) == n

\* Mutant: the total counts the response's words only.
get_response_total_of_output(instructions, inp, drawn) ==
    LET input_text == extract_input_text(inp)
        response_text == _generate_response(instructions, input_text)
        output_message ==
            [ id |-> uuid4(drawn + 1), role |-> "assistant", status |-> "completed",
              type |-> "message",
              content |-> << [ type |-> "output_text", text |-> response_text,
                               annotations |-> << >> ] >> ]
    IN  [ output |-> << output_message >>,
          usage |-> [ requests |-> 1,
                      input_tokens |-> Len(split(input_text)),
                      output_tokens |-> Len(split(response_text)),
                      total_tokens |-> Len(split(response_text)) ],
          response_id |-> uuid4(drawn + 2) ]

\* The ModelResponse get_response builds when `drawn` uuids were drawn before.
get_response(instructions, inp, drawn) ==
    LET input_text == extract_input_text(inp)
        response_text == _generate_response(instructions, input_text)
        output_message ==
            [ id |-> uuid4(drawn + 1), role |-> "assistant", status |-> "completed",
              type |-> "message",
              content |-> << [ type |-> "output_text", text |-> response_text,
                               annotations |-> << >> ] >> ]
    IN  [ output |-> << output_message >>,
          usage |-> [ requests |-> 1,
                      input_tokens |-> Len(split(input_text)),
                      output_tokens |-> Len(split(response_text)),
                      total_tokens |-> Len(split(input_text)) + Len(split(response_text)) ],
          response_id |-> uuid4(drawn + 2) ]

\* The text of the output message the response carries (lines 213-224).
output_text(r) == r.output[1].content[1].text

\* ModelResponse.text, which stream_response reads at line 162: the record's text.
ResponseText(r) == output_text(r)

(***************************************************************************)
(* The inputs explored.                                                    *)
(***************************************************************************)
AdHocProfiles ==
    { TrainingProfile("Test", "Test", { "problem_solving", "invalid_domain" },
                      TrainingIntensity.BASIC, TrainingFocus.COMPREHENSIVE,
                      Some("This is custom training content."), TRUE),
      TrainingProfile("Test", "Test", { "problem_solving", "invalid_domain" },
                      TrainingIntensity.INTERMEDIATE, TrainingFocus.COMPREHENSIVE,
                      Some("This is custom training content."), TRUE),
      TrainingProfile("Plain", "No skills", { },
                      TrainingIntensity.INTERMEDIATE, TrainingFocus.ETHICAL,
                      None, FALSE),
      TrainingProfile("Quiet", "Advanced without enhanced reasoning",
                      { "creative_thinking" },
                      TrainingIntensity.ADVANCED, TrainingFocus.CREATIVE,
                      Some(""), FALSE) }

ProfilePool ==
    { get_training_profile(PROFILE_NAMES[j]).value : j \in 1..Len(PROFILE_NAMES) }
    \cup AdHocProfiles

Agent(name, instructions, model, model_settings) ==
    [ name |-> name, instructions |-> instructions, model |-> model,
      model_settings |-> model_settings ]

InitialInstructions == { None, Some(""), Some("You are helpful.") }

InitialModelSettings == { None, Some(ModelSettings(None, Some("0.7"), None)) }

RawInstructions ==
    { None, Some(""),
      Some("legendary sage"), Some("analytical master"),
      Some("communication expert"), Some("innovation genius"),
      Some("random instructions"), Some("Test legendary training"),
      Some("master-level capabilities across all domains"),
      Some("You are a Legendary Sage and a communication expert"),
      Some("A Master Communicator with exceptional analytical skills"),
      Some("The creative problem-solver in legendary training"),
      Some("legendary instructions only"), Some("training instructions only") }

GeneratedInstructions(seed) ==
    { Some(generate_instructions(get_training_profile(PROFILE_NAMES[j]).value, seed)) :
        j \in 1..Len(PROFILE_NAMES) }

InputPool ==
    { StrInput("Test question"), StrInput("A Legendary Sage in training"), StrInput(""),
      ListInput(<< >>), OtherInput,
      ListInput(<< [ has_content |-> TRUE, content_is_str |-> TRUE, content |-> "Hello There" ],
                   [ has_content |-> TRUE, content_is_str |-> FALSE, content |-> "" ],
                   [ has_content |-> FALSE, content_is_str |-> FALSE, content |-> "" ],
                   [ has_content |-> TRUE, content_is_str |-> TRUE, content |-> "again" ] >>) }

\* The requests explored under a hash seed.  A raw instruction string does not
\* read the seed, so raw strings are explored under seed 1 only.
RequestPool(seed) ==
    LET raw == (RawInstructions \X { StrInput("Test question") })
               \cup ({ None, Some(""), Some("legendary sage") } \X InputPool)
               \cup { << Some("random instructions"), ListInput(<< >>) >> }
    IN  (GeneratedInstructions(seed) \X { StrInput("Test question") })
        \cup (IF seed = 1 THEN raw ELSE { })

(***************************************************************************)
(* Initial states.                                                         *)
(***************************************************************************)
\* The tasks that call the model concurrently, and a task that has made no call.
Tasks == { "t1", "t2" }

TaskIdle ==
    [ op |-> "", system_instructions |-> None, input |-> StrInput(""),
      pc |-> "idle", response |-> None, words |-> << >>, current_text |-> "",
      i |-> 0, event |-> None, n_events |-> 0, result |-> None ]

ModelIdle ==
    /\ pc = "idle"
    /\ caller = "harness"
    /\ response = None
    /\ words = << >>
    /\ current_text = ""
    /\ i = 0
    /\ event = None
    /\ n_events = 0
    /\ uuid_count = 0
    /\ returned = << >>

\* The objects built when the modules are imported and the StubModel is constructed.
InitObjects ==
    /\ self = [ model_name |-> "stub-model", legendary_responses |-> legendary_responses ]
    /\ skill_domains_registry = SKILL_DOMAINS

\* No concurrent call and no profile lookup has been made.
DriversIdle ==
    /\ tasks = [ t \in Tasks |-> TaskIdle ]
    /\ lookups = << >>

\* No profile pair classified, no CLI command and no HTTP request started.
ClassifiedNone == [ pc |-> "none" ]

CliIdle == [ pc |-> "idle" ]

HttpIdle == [ pc |-> "idle" ]

\* server.py line 176: the module's manager as constructed (lines 34-40), with
\* no websocket connected yet.
SessionIds == { "s1", "s2" }

EmptyDict == [ k \in {} |-> None ]

RealtimeWebSocketManager ==
    [ active_sessions |-> EmptyDict, session_contexts |-> EmptyDict,
      websockets |-> EmptyDict, _pending_audio |-> EmptyDict,
      _audio_flush_tasks |-> EmptyDict ]

\* A session id no websocket has connected with, and the exceptions of the
\* disconnect calls made for it.
SocketNone == [ handler |-> "none", disconnect_raised |-> << >> ]

RealtimeIdle ==
    /\ manager = RealtimeWebSocketManager
    /\ sockets = [ sid \in SessionIds |-> SocketNone ]

BoundaryIdle ==
    /\ classified = ClassifiedNone
    /\ cli = CliIdle
    /\ http = HttpIdle
    /\ RealtimeIdle

InitTraining ==
    /\ InitObjects
    /\ DriversIdle
    /\ BoundaryIdle
    /\ scenario = "training"
    /\ hash_seed \in 1..NumHashSeeds
    /\ reasoning_importable \in BOOLEAN
    /\ \E instructions \in InitialInstructions, model_settings \in InitialModelSettings :
           agents = << Agent("Basic Agent", instructions, "gpt-4", model_settings) >>
    /\ applications = << >>
    /\ system_instructions = None
    /\ input = StrInput("")
    /\ ModelIdle

InitModel ==
    /\ InitObjects
    /\ DriversIdle
    /\ BoundaryIdle
    /\ scenario = "model"
    /\ hash_seed \in 1..NumHashSeeds
    /\ reasoning_importable = TRUE
    /\ agents = << Agent("Basic Agent", None, "gpt-4", None) >>
    /\ applications = << >>
    /\ \E request \in RequestPool(hash_seed) :
           /\ system_instructions = request[1]
           /\ input = request[2]
    /\ ModelIdle

\* The profile names callers look up: the canonical ones and others.
ProfileNamePool ==
    { PROFILE_NAMES[j] : j \in 1..Len(PROFILE_NAMES) }
    \cup { "not_a_real_profile", "", "Legendary Sage", "LEGENDARY_SAGE", "default" }

InitLookup ==
    /\ InitObjects
    /\ DriversIdle
    /\ BoundaryIdle
    /\ scenario = "lookup"
    /\ hash_seed = 1
    /\ reasoning_importable = TRUE
    /\ agents = << Agent("Basic Agent", None, "gpt-4", None) >>
    /\ applications = << >>
    /\ system_instructions = None
    /\ input = StrInput("")
    /\ ModelIdle

Init == InitTraining \/ InitModel \/ InitLookup

(***************************************************************************)
(* apply_legendary_training(agent, profile): `a` is the agent's identity.  *)
(***************************************************************************)
\* Mutant: the training is applied to a copy, which is returned.
apply_legendary_training_copy(a, profile) ==
    /\ scenario = "training"
    /\ Len(applications) < MaxApply
    /\ LET agent == agents[a]
           enhanced_instructions == generate_instructions(profile, hash_seed)
           enhanced_model_settings ==
               create_enhanced_model_settings(profile, reasoning_importable)
           copy == [ agent EXCEPT
                       !.instructions =
                           Some(IF TruthyStr(agent.instructions)
                                THEN agent.instructions[1] \o "\n\n" \o enhanced_instructions
                                ELSE enhanced_instructions),
                       !.model_settings =
                           IF TruthyObj(enhanced_model_settings) /\ ~TruthyObj(@)
                           THEN enhanced_model_settings ELSE @ ]
       IN  /\ agents' = Append(agents, copy)
           /\ applications' = Append(applications,
                                     [ agent |-> a, profile |-> profile,
                                       profile_after |-> profile,
                                       before |-> agent, after |-> agent,
                                       result |-> Len(agents) + 1 ])
    /\ UNCHANGED << scenario, hash_seed, reasoning_importable,
                    system_instructions, input >>
    /\ UNCHANGED model_vars
    /\ UNCHANGED object_vars
    /\ UNCHANGED driver_vars
    /\ UNCHANGED boundary_vars

\* Mutant: the agent is renamed after the profile.
apply_legendary_training_renaming(a, profile) ==
    /\ scenario = "training"
    /\ Len(applications) < MaxApply
    /\ LET agent == agents[a]
           enhanced_instructions == generate_instructions(profile, hash_seed)
           combined_instructions ==
               combine_instructions(agent.instructions, enhanced_instructions)
           enhanced_model_settings ==
               create_enhanced_model_settings(profile, reasoning_importable)
           trained == [ agent EXCEPT
                          !.name = profile.name,
                          !.instructions = Some(combined_instructions),
                          !.model_settings =
                              select_model_settings(@, enhanced_model_settings) ]
       IN  /\ agents' = [ agents EXCEPT ![a] = trained ]
           /\ applications' = Append(applications,
                                     [ agent |-> a, profile |-> profile,
                                       profile_after |-> profile,
                                       before |-> agent, after |-> trained,
                                       result |-> a ])
    /\ UNCHANGED << scenario, hash_seed, reasoning_importable,
                    system_instructions, input >>
    /\ UNCHANGED model_vars
    /\ UNCHANGED object_vars
    /\ UNCHANGED driver_vars
    /\ UNCHANGED boundary_vars

apply_legendary_training(a, profile) ==
    /\ scenario = "training"
    /\ Len(applications) < MaxApply
    /\ LET agent == agents[a]
           enhanced_instructions == generate_instructions(profile, hash_seed)
           combined_instructions ==
               combine_instructions(agent.instructions, enhanced_instructions)
           enhanced_model_settings ==
               create_enhanced_model_settings(profile, reasoning_importable)
           trained == [ agent EXCEPT
                          !.instructions = Some(combined_instructions),
                          !.model_settings =
                              select_model_settings(@, enhanced_model_settings) ]
       IN  /\ agents' = [ agents EXCEPT ![a] = trained ]
           /\ applications' = Append(applications,
                                     [ agent |-> a, profile |-> profile,
                                       profile_after |-> profile,
                                       before |-> agent, after |-> trained,
                                       result |-> a ])
    /\ UNCHANGED << scenario, hash_seed, reasoning_importable,
                    system_instructions, input >>
    /\ UNCHANGED model_vars
    /\ UNCHANGED object_vars
    /\ UNCHANGED driver_vars
    /\ UNCHANGED boundary_vars

ApplyTraining == \E a \in DOMAIN agents, profile \in ProfilePool :
                     apply_legendary_training(a, profile)

(***************************************************************************)
(* StubModel.get_response and StubModel.stream_response.                   *)
(***************************************************************************)
env_vars == << scenario, hash_seed, reasoning_importable, system_instructions, input >>

\* The harness awaits model.get_response(...): the call suspends in asyncio.sleep(0.5).
CallGetResponse ==
    /\ scenario = "model"
    /\ pc = "idle"
    /\ Len(returned) < MaxCalls
    /\ pc' = "get_response:sleep"
    /\ caller' = "harness"
    /\ UNCHANGED << response, words, current_text, i, event, n_events,
                    uuid_count, returned >>
    /\ UNCHANGED env_vars
    /\ UNCHANGED training_vars
    /\ UNCHANGED object_vars
    /\ UNCHANGED driver_vars
    /\ UNCHANGED boundary_vars

\* The harness starts iterating model.stream_response(...), which first awaits
\* self.get_response(...) with its own arguments.
CallStreamResponse ==
    /\ scenario = "model"
    /\ pc = "idle"
    /\ Len(returned) < MaxCalls
    /\ pc' = "get_response:sleep"
    /\ caller' = "stream"
    /\ event' = None
    /\ n_events' = 0
    /\ UNCHANGED << response, words, current_text, i, uuid_count, returned >>
    /\ UNCHANGED env_vars
    /\ UNCHANGED training_vars
    /\ UNCHANGED object_vars
    /\ UNCHANGED driver_vars
    /\ UNCHANGED boundary_vars

\* get_response resumes and raises; the exception reaches the harness, through
\* stream_response when that is the caller (no event has been yielded then).
GetResponseRaises ==
    /\ pc = "get_response:sleep"
    /\ get_response_exception(system_instructions, input) /= ""
    /\ returned' = Append(returned,
                          [ op |-> IF caller = "stream" THEN "stream_response"
                                                        ELSE "get_response",
                            raised |-> get_response_exception(system_instructions, input),
                            response |-> None ])
    /\ pc' = "idle"
    /\ UNCHANGED << caller, response, words, current_text, i, event, n_events,
                    uuid_count >>
    /\ UNCHANGED env_vars
    /\ UNCHANGED training_vars
    /\ UNCHANGED object_vars
    /\ UNCHANGED driver_vars
    /\ UNCHANGED boundary_vars

\* get_response resumes, builds the ModelResponse and returns it to the harness.
GetResponseToHarness ==
    /\ pc = "get_response:sleep"
    /\ caller = "harness"
    /\ get_response_exception(system_instructions, input) = ""
    /\ returned' = Append(returned,
                          [ op |-> "get_response", raised |-> "",
                            response |->
                                Some(get_response(system_instructions, input, uuid_count)) ])
    /\ uuid_count' = uuid_count + 2
    /\ pc' = "idle"
    /\ UNCHANGED << caller, response, words, current_text, i, event, n_events >>
    /\ UNCHANGED env_vars
    /\ UNCHANGED training_vars
    /\ UNCHANGED object_vars
    /\ UNCHANGED driver_vars
    /\ UNCHANGED boundary_vars

\* Mutant: stream_response does not forward its system_instructions.
GetResponseToStream_without_instructions ==
    /\ pc = "get_response:sleep"
    /\ caller = "stream"
    /\ get_response_exception(system_instructions, input) = ""
    /\ LET r == get_response(None, input, uuid_count)
       IN  /\ response' = Some(r)
           /\ words' = split(ResponseText(r))
    /\ current_text' = ""
    /\ i' = 0
    /\ uuid_count' = uuid_count + 2
    /\ pc' = "stream_response:loop"
    /\ UNCHANGED << caller, event, n_events, returned >>
    /\ UNCHANGED env_vars
    /\ UNCHANGED training_vars
    /\ UNCHANGED object_vars
    /\ UNCHANGED driver_vars
    /\ UNCHANGED boundary_vars

\* get_response returns to stream_response, which splits the text (lines 148-163).
GetResponseToStream ==
    /\ pc = "get_response:sleep"
    /\ caller = "stream"
    /\ get_response_exception(system_instructions, input) = ""
    /\ LET r == get_response(system_instructions, input, uuid_count)
       IN  /\ response' = Some(r)
           /\ words' = split(ResponseText(r))
    /\ current_text' = ""
    /\ i' = 0
    /\ uuid_count' = uuid_count + 2
    /\ pc' = "stream_response:loop"
    /\ UNCHANGED << caller, event, n_events, returned >>
    /\ UNCHANGED env_vars
    /\ UNCHANGED training_vars
    /\ UNCHANGED object_vars
    /\ UNCHANGED driver_vars
    /\ UNCHANGED boundary_vars

\* Mutant: the separator is never appended.
append_word_without_separator(text, word_list, k) ==
    text \o word_list[k + 1]

\* The text current_text holds after the loop body appended word number k (0-based).
append_word(text, word_list, k) ==
    text \o word_list[k + 1] \o (IF k < Len(word_list) - 1 THEN " " ELSE "")

\* One iteration of the loop (lines 165-174): append the word, sleep, yield.
StreamYieldText ==
    /\ pc = "stream_response:loop"
    /\ i < Len(words)
    /\ current_text' = append_word(current_text, words, i)
    /\ event' = Some([ type |-> "text", content |-> current_text' ])
    /\ n_events' = n_events + 1
    /\ i' = i + 1
    /\ UNCHANGED << pc, caller, response, words, uuid_count, returned >>
    /\ UNCHANGED env_vars
    /\ UNCHANGED training_vars
    /\ UNCHANGED object_vars
    /\ UNCHANGED driver_vars
    /\ UNCHANGED boundary_vars

\* Mutant: the loop ends one iteration early.
StreamYieldFinal_early ==
    /\ pc = "stream_response:loop"
    /\ i >= Len(words) - 1
    /\ event' = Some([ type |-> "final", response |-> response[1] ])
    /\ n_events' = n_events + 1
    /\ pc' = "stream_response:final"
    /\ UNCHANGED << caller, response, words, current_text, i, uuid_count, returned >>
    /\ UNCHANGED env_vars
    /\ UNCHANGED training_vars
    /\ UNCHANGED object_vars
    /\ UNCHANGED driver_vars
    /\ UNCHANGED boundary_vars

\* The loop is over: yield the final event (line 177).
StreamYieldFinal ==
    /\ pc = "stream_response:loop"
    /\ i >= Len(words)
    /\ event' = Some([ type |-> "final", response |-> response[1] ])
    /\ n_events' = n_events + 1
    /\ pc' = "stream_response:final"
    /\ UNCHANGED << caller, response, words, current_text, i, uuid_count, returned >>
    /\ UNCHANGED env_vars
    /\ UNCHANGED training_vars
    /\ UNCHANGED object_vars
    /\ UNCHANGED driver_vars
    /\ UNCHANGED boundary_vars

\* The consumer asks for the next event and the generator returns.
StreamReturn ==
    /\ pc = "stream_response:final"
    /\ returned' = Append(returned,
                          [ op |-> "stream_response", raised |-> "",
                            response |-> Some(event[1].response) ])
    /\ pc' = "idle"
    /\ response' = None
    /\ words' = << >>
    /\ current_text' = ""
    /\ i' = 0
    /\ UNCHANGED << caller, event, n_events, uuid_count >>
    /\ UNCHANGED env_vars
    /\ UNCHANGED training_vars
    /\ UNCHANGED object_vars
    /\ UNCHANGED driver_vars
    /\ UNCHANGED boundary_vars

(***************************************************************************)
(* get_training_profile(profile_name), called by the lookup driver.        *)
(***************************************************************************)
GetTrainingProfile ==
    /\ scenario = "lookup"
    /\ Len(lookups) < MaxLookups
    /\ \E profile_name \in ProfileNamePool :
           LET outcome == get_training_profile(profile_name)
           IN  lookups' = Append(lookups,
                   [ profile_name |-> profile_name,
                     raised |-> outcome.raised,
                     message |-> IF outcome.raised = "" THEN "" ELSE outcome.message,
                     value |-> IF outcome.raised = "" THEN Some(outcome.value) ELSE None ])
    /\ UNCHANGED << tasks >>
    /\ UNCHANGED boundary_vars
    /\ UNCHANGED env_vars
    /\ UNCHANGED training_vars
    /\ UNCHANGED model_vars
    /\ UNCHANGED object_vars

(***************************************************************************)
(* Concurrent calls of get_response / stream_response on one StubModel:    *)
(* each task runs the coroutine of lines 131-233 on its own frame and is   *)
(* suspended at every asyncio.sleep, where the other tasks may run.        *)
(***************************************************************************)
\* The requests the concurrent tasks make.
ConcurrentRequests ==
    { << None, StrInput("Test question") >>,
      << Some("legendary sage"),
         ListInput(<< [ has_content |-> TRUE, content_is_str |-> TRUE,
                        content |-> "Hello There" ] >>) >> }

InitConcurrent ==
    /\ InitObjects
    /\ DriversIdle
    /\ BoundaryIdle
    /\ scenario = "concurrent"
    /\ hash_seed = 1
    /\ reasoning_importable = TRUE
    /\ agents = << Agent("Basic Agent", None, "gpt-4", None) >>
    /\ applications = << >>
    /\ system_instructions = None
    /\ input = StrInput("")
    /\ ModelIdle

\* What a task's step leaves unchanged besides the other tasks' frames.
task_frame_vars ==
    << scenario, hash_seed, reasoning_importable, system_instructions, input,
       agents, applications, pc, caller, response, words, current_text, i, event,
       n_events, returned, skill_domains_registry, lookups,
       classified, cli, http, manager, sockets >>

\* Task t calls get_response or stream_response and is suspended in the
\* asyncio.sleep(0.5) of get_response.
TaskCall(t) ==
    /\ scenario = "concurrent"
    /\ tasks[t].pc = "idle"
    /\ \E op \in { "get_response", "stream_response" }, request \in ConcurrentRequests :
           tasks' = [ tasks EXCEPT ![t] =
                        [ TaskIdle EXCEPT !.op = op,
                                          !.system_instructions = request[1],
                                          !.input = request[2],
                                          !.pc = "get_response:sleep" ] ]
    /\ UNCHANGED << uuid_count, self >>
    /\ UNCHANGED task_frame_vars

\* Mutant: get_response keeps the text it selected as the table's default.
TaskGetResponse_caching(t) ==
    /\ tasks[t].pc = "get_response:sleep"
    /\ LET r == get_response(tasks[t].system_instructions, tasks[t].input, uuid_count)
       IN  /\ tasks' = [ tasks EXCEPT ![t] =
                IF tasks[t].op = "get_response"
                THEN [ @ EXCEPT !.pc = "done", !.result = Some(r) ]
                ELSE [ @ EXCEPT !.pc = "stream_response:loop", !.response = Some(r),
                                !.words = split(ResponseText(r)) ] ]
           /\ self' = [ self EXCEPT !.legendary_responses["default"] = output_text(r) ]
    /\ uuid_count' = uuid_count + 2
    /\ UNCHANGED task_frame_vars

\* Task t resumes in get_response, which builds its ModelResponse and returns
\* it: to the task, or to the task's stream_response, which splits its text.
TaskGetResponse(t) ==
    /\ tasks[t].pc = "get_response:sleep"
    /\ LET r == get_response(tasks[t].system_instructions, tasks[t].input, uuid_count)
       IN  tasks' = [ tasks EXCEPT ![t] =
                IF tasks[t].op = "get_response"
                THEN [ @ EXCEPT !.pc = "done", !.result = Some(r) ]
                ELSE [ @ EXCEPT !.pc = "stream_response:loop", !.response = Some(r),
                                !.words = split(ResponseText(r)) ] ]
    /\ uuid_count' = uuid_count + 2
    /\ UNCHANGED self
    /\ UNCHANGED task_frame_vars

\* One iteration of task t's loop (lines 165-174).
TaskYieldText(t) ==
    /\ tasks[t].pc = "stream_response:loop"
    /\ tasks[t].i < Len(tasks[t].words)
    /\ LET text == append_word(tasks[t].current_text, tasks[t].words, tasks[t].i)
       IN  tasks' = [ tasks EXCEPT ![t] =
                [ @ EXCEPT !.current_text = text, !.i = @ + 1,
                           !.event = Some([ type |-> "text", content |-> text ]),
                           !.n_events = @ + 1 ] ]
    /\ UNCHANGED << uuid_count, self >>
    /\ UNCHANGED task_frame_vars

\* Task t's loop is over: the final event (line 177).
TaskYieldFinal(t) ==
    /\ tasks[t].pc = "stream_response:loop"
    /\ tasks[t].i >= Len(tasks[t].words)
    /\ tasks' = [ tasks EXCEPT ![t] =
            [ @ EXCEPT !.event = Some([ type |-> "final", response |-> tasks[t].response[1] ]),
                       !.n_events = @ + 1,
                       !.pc = "stream_response:final" ] ]
    /\ UNCHANGED << uuid_count, self >>
    /\ UNCHANGED task_frame_vars

\* Task t's consumer asks for the next event and the generator returns.
TaskReturn(t) ==
    /\ tasks[t].pc = "stream_response:final"
    /\ tasks' = [ tasks EXCEPT ![t] =
            [ @ EXCEPT !.pc = "done", !.result = Some(tasks[t].event[1].response) ] ]
    /\ UNCHANGED << uuid_count, self >>
    /\ UNCHANGED task_frame_vars

ConcInit == InitTraining \/ InitConcurrent

ConcNext ==
    \/ ApplyTraining
    \/ \E t \in Tasks : TaskCall(t)
    \/ \E t \in Tasks : TaskGetResponse(t)
    \/ \E t \in Tasks : TaskYieldText(t)
    \/ \E t \in Tasks : TaskYieldFinal(t)
    \/ \E t \in Tasks : TaskReturn(t)

ConcSpec == ConcInit /\ [][ConcNext]_vars

Next ==
    \/ ApplyTraining
    \/ GetTrainingProfile
    \/ CallGetResponse
    \/ CallStreamResponse
    \/ GetResponseRaises
    \/ GetResponseToHarness
    \/ GetResponseToStream
    \/ StreamYieldText
    \/ StreamYieldFinal
    \/ StreamReturn

Spec == Init /\ [][Next]_vars

(***************************************************************************)
(* Properties.                                                             *)
(***************************************************************************)
LastReturned == returned[Len(returned)]

\* A model call has just handed its result to the harness.
CallJustReturned == pc = "idle" /\ returned /= << >> /\ LastReturned.raised = ""

LastText == output_text(LastReturned.response[1])

\* The numbered signature rules of the response selection.
RuleMatches(r, low) ==
    CASE r = 1 -> Contains("legendary sage", low)
                  \/ Contains("master-level capabilities across all domains", low)
      [] r = 2 -> Contains("analytical master", low)
                  \/ Contains("exceptional analytical", low)
      [] r = 3 -> Contains("communication expert", low)
                  \/ Contains("master communicator", low)
      [] r = 4 -> Contains("innovation genius", low)
                  \/ Contains("creative problem-solver", low)
      [] r = 5 -> Contains("legendary", low) /\ Contains("training", low)

RuleResponse(r) ==
    CASE r = 1 -> response_legendary_sage
      [] r = 2 -> response_analytical_master
      [] r = 3 -> response_communication_expert
      [] r = 4 -> response_innovation_genius
      [] r = 5 -> response_generic_legendary_training
      [] r = 6 -> response_default

LowestMatchingRule(low) ==
    LET matching == { r \in 1..5 : RuleMatches(r, low) }
    IN  IF matching = { } THEN 6
        ELSE CHOOSE r \in matching : \A q \in matching : r <= q

\* C1: for a non-empty instruction string the selected response is that of the
\* lowest-numbered matching signature rule (lower-cased substring match), rule 6
\* (default) when none matches; so 'legendary sage' together with
\* 'communication expert' selects legendary_sage, and only one of 'legendary' /
\* 'training' without a rule 1-4 signature selects default.
C1_FirstMatchWins ==
    (CallJustReturned /\ TruthyStr(system_instructions)) =>
        LET low == lower(system_instructions[1])
        IN  /\ LastText = RuleResponse(LowestMatchingRule(low))
            /\ (Contains("legendary sage", low) /\ Contains("communication expert", low))
                   => LastText = response_legendary_sage
            /\ ( /\ Contains("legendary", low) /= Contains("training", low)
                 /\ \A r \in 1..4 : ~RuleMatches(r, low) )
                   => LastText = response_default

C1_Witness ==
    /\ CallJustReturned
    /\ TruthyStr(system_instructions)
    /\ Contains("legendary sage", lower(system_instructions[1]))
    /\ Contains("communication expert", lower(system_instructions[1]))
    /\ LastText = response_legendary_sage

\* C2: the instructions generate_instructions assembles for the canonical
\* profile analytical_master select the analytical_master canned response.
C2_AnalyticalMasterLinkage ==
    ( /\ CallJustReturned
      /\ system_instructions
           = Some(generate_instructions(get_training_profile("analytical_master").value,
                                        hash_seed)) )
        => LastText = legendary_responses["analytical_master"]

\* The texts the response selection can return.
CannedTexts ==
    { legendary_responses[key] : key \in DOMAIN legendary_responses }
    \cup { response_generic_legendary_training }

\* The number of whitespace-separated words of a text: the positions where a
\* maximal run of non-whitespace characters starts.
WordCount(s) ==
    Cardinality({ k \in 1..Len(s) : ~IsSpaceAt(s, k) /\ (k = 1 \/ IsSpaceAt(s, k - 1)) })

CannedWordCount == [ t \in CannedTexts |-> WordCount(t) ]

StreamInFlight == pc \in { "stream_response:loop", "stream_response:final" }

StreamJustReturned == CallJustReturned /\ LastReturned.op = "stream_response"

\* C3: a stream over a response text of N whitespace-separated words yields
\* exactly N + 1 events: the final event is event number N + 1 and no other,
\* no event follows it, and the stream ends only after it.
C3_StreamLength ==
    /\ StreamInFlight =>
           LET N == CannedWordCount[output_text(response[1])]
           IN  /\ n_events <= N + 1
               /\ (event = None) <=> (n_events = 0)
               /\ event /= None => ((event[1].type = "final") <=> (n_events = N + 1))
               /\ pc = "stream_response:final" => n_events = N + 1
    /\ StreamJustReturned =>
           /\ n_events = CannedWordCount[LastText] + 1
           /\ event[1].type = "final"

C3_Witness ==
    /\ StreamJustReturned
    /\ LastText = response_communication_expert
    /\ n_events = 243
    /\ event[1].type = "final"

\* Completed calls number a (a stream) and b (a get_response) of this behaviour;
\* every call of a behaviour has the same instructions and input.
StreamAndSeparateCall(a, b) ==
    /\ returned[a].op = "stream_response" /\ returned[a].raised = ""
    /\ returned[b].op = "get_response" /\ returned[b].raised = ""

\* A ModelResponse without its two uuid4 identifiers.
WithoutIds(r) ==
    [ output |-> [ j \in 1..Len(r.output) |-> [ r.output[j] EXCEPT !.id = 0 ] ],
      usage |-> r.usage ]

\* C4 as stated: the ResponseRecord embedded in a stream's final event equals
\* the one a separate get_response call with the same arguments returns.
C4_FinalEqualsSeparateCall ==
    \A a, b \in 1..Len(returned) :
        StreamAndSeparateCall(a, b) => returned[a].response = returned[b].response

\* C4 as amended: the final event embeds the response stream_response holds,
\* which agrees with a separate call's response in text, output message and
\* usage, and differs from it in response_id and message id (fresh per call).
C4_FinalAgreesUpToIds ==
    /\ pc = "stream_response:final" =>
           event[1] = [ type |-> "final", response |-> response[1] ]
    /\ \A a, b \in 1..Len(returned) :
           StreamAndSeparateCall(a, b) =>
               LET s == returned[a].response[1]
                   g == returned[b].response[1]
               IN  /\ output_text(s) = output_text(g)
                   /\ WithoutIds(s) = WithoutIds(g)
                   /\ s.response_id /= g.response_id
                   /\ s.output[1].id /= g.output[1].id

C4_Witness ==
    /\ Len(returned) = 2
    /\ StreamAndSeparateCall(1, 2)
    /\ output_text(returned[1].response[1]) = response_legendary_sage
    /\ input = StrInput("A Legendary Sage in training")

CannedWords == [ t \in CannedTexts |-> split(t) ]

\* Words lo..hi of W joined by single spaces.
RECURSIVE JoinedWords(_, _, _)
JoinedWords(W, lo, hi) ==
    IF lo = hi THEN W[lo]
    ELSE LET mid == (lo + hi) \div 2
         IN  JoinedWords(W, lo, mid) \o " " \o JoinedWords(W, mid + 1, hi)

\* For each canned text, its first k words joined by single spaces, for every k.
CannedPrefixes ==
    [ t \in CannedTexts |->
        [ k \in 1..Len(CannedWords[t]) |-> JoinedWords(CannedWords[t], 1, k) ] ]

\* The stream's latest event is a non-final event of type `type_name` whose
\* field `field` holds exactly the first n_events words of the response text,
\* joined by single spaces (a trailing space aside).
CarriesCumulativeWords(type_name, field) ==
    LET e == event[1]
        t == output_text(response[1])
    IN  /\ e.type = type_name
        /\ DOMAIN e = { "type", field }
        /\ n_events <= Len(CannedWords[t])
        /\ \/ e[field] = CannedPrefixes[t][n_events]
           \/ e[field] = CannedPrefixes[t][n_events] \o " "

NonFinalEvent == StreamInFlight /\ event /= None /\ event[1].type /= "final"

StrOf(o) == IF o = None THEN "" ELSE o[1]

StartsWith(s, prefix) ==
    Len(prefix) <= Len(s) /\ SubSeq(s, 1, Len(prefix)) = prefix

EndsWith(s, suffix) ==
    Len(suffix) <= Len(s) /\ SubSeq(s, Len(s) - Len(suffix) + 1, Len(s)) = suffix

Applied == 1..Len(applications)

\* What generate_instructions returned in application number k.
Generated(k) == generate_instructions(applications[k].profile, hash_seed)

\* What create_enhanced_model_settings returned in application number k.
Enhanced(k) == create_enhanced_model_settings(applications[k].profile, reasoning_importable)

\* Application k + 1 acts on the agent as application k left it.
Chained == \A k \in Applied : k > 1 => applications[k].before = applications[k - 1].after

\* C6: each application leaves the instructions strictly longer, beginning
\* with the instructions held before it and ending with the profile's
\* assembled text, which lies wholly after the earlier text; applications
\* chain, so the final string holds the original text and every profile's
\* text in application order.
C6_Accumulates ==
    /\ Chained
    /\ applications /= << >> => agents[1] = applications[Len(applications)].after
    /\ \A k \in Applied :
           LET b == StrOf(applications[k].before.instructions)
               a == StrOf(applications[k].after.instructions)
           IN  /\ applications[k].after.instructions /= None
               /\ Len(a) > Len(b)
               /\ StartsWith(a, b)
               /\ EndsWith(a, Generated(k))
               /\ Len(a) - Len(Generated(k)) >= Len(b)

C6_Witness ==
    /\ Len(applications) = 2
    /\ applications[1].before.instructions = Some("You are helpful.")
    /\ applications[1].profile = get_training_profile("communication_expert").value
    /\ applications[2].profile = get_training_profile("analytical_master").value
    /\ Len(StrOf(agents[1].instructions))
         > Len(StrOf(applications[1].after.instructions))
    /\ Len(StrOf(applications[1].after.instructions)) > Len("You are helpful.")

\* C7: an application never changes settings the agent already has; an agent
\* without settings gets the profile's enhanced settings (possibly none), so a
\* chain leaves the enhanced settings of its first profile that yields any.
C7_SettingsNeverOverwritten ==
    /\ \A k \in Applied :
           LET b == applications[k].before.model_settings
               a == applications[k].after.model_settings
           IN  /\ b /= None => a = b
               /\ b = None => a = Enhanced(k)
    /\ (Chained /\ applications /= << >>) =>
           LET first == applications[1].before.model_settings
               yielding == { k \in Applied : Enhanced(k) /= None }
               last == applications[Len(applications)].after.model_settings
           IN  /\ first /= None => last = first
               /\ (first = None /\ yielding = { }) => last = None
               /\ (first = None /\ yielding /= { }) =>
                      last = Enhanced(CHOOSE k \in yielding : \A q \in yielding : k <= q)

C7_Witness ==
    /\ Len(applications) = 2
    /\ applications[1].before.model_settings = Some(ModelSettings(None, Some("0.7"), None))
    /\ Enhanced(1) /= None
    /\ Enhanced(2) /= None
    /\ agents[1].model_settings = Some(ModelSettings(None, Some("0.7"), None))

\* C8: the call returns the identity it was given and allocates no agent; the
\* agent's new instructions are old + "\n\n" + generated when the old ones
\* were non-empty, and the generated text alone when they were None or "".
C8_InPlaceExactConcatenation ==
    /\ Len(agents) = 1
    /\ \A k \in Applied :
           LET b == applications[k].before.instructions
           IN  /\ applications[k].result = applications[k].agent
               /\ (b /= None /\ b /= Some("")) =>
                      applications[k].after.instructions
                          = Some(b[1] \o "\n\n" \o Generated(k))
               /\ (b = None \/ b = Some("")) =>
                      applications[k].after.instructions = Some(Generated(k))
    /\ applications /= << >> =>
           agents[applications[Len(applications)].result]
               = applications[Len(applications)].after

C8_Witness ==
    /\ Len(applications) = 2
    /\ applications[1].before.instructions = Some("")
    /\ applications[2].result = 1
    /\ agents[1].instructions = Some(Generated(1) \o "\n\n" \o Generated(2))

\* The input is a string or a list of items.
InputInContract == input.kind \in { "str", "list" }

\* C9: for a string or list input, whatever the items' content and whatever
\* the instructions, no call raises: a suspended get_response is about to
\* return normally, every call that returned did so with a response, a
\* stream that returned ended on its final event, and instructions matching
\* no rule gave the default response.
C9_NeverRaises ==
    (scenario = "model" /\ InputInContract) =>
        /\ get_response_exception(system_instructions, input) = ""
        /\ \A k \in 1..Len(returned) :
               /\ returned[k].raised = ""
               /\ returned[k].response /= None
        /\ StreamJustReturned => (event /= None /\ event[1].type = "final")
        /\ pc = "stream_response:loop" => (i <= Len(words) /\ n_events = i)
        /\ ( /\ CallJustReturned
             /\ TruthyStr(system_instructions)
             /\ LowestMatchingRule(lower(system_instructions[1])) = 6 )
               => LastText = legendary_responses["default"]

C9_Witness ==
    /\ StreamJustReturned
    /\ input.kind = "list"
    /\ \E k \in 1..Len(input.items) :
           input.items[k].has_content /\ ~input.items[k].content_is_str
    /\ \E k \in 1..Len(input.items) : ~input.items[k].has_content
    /\ LastReturned.raised = ""
    /\ event[1].type = "final"

\* C10: with system_instructions None or "" every response that is returned
\* carries the default canned text, whatever the user input.
C10_DefaultWithoutInstructions ==
    (system_instructions = None \/ system_instructions = Some("")) =>
        \A k \in 1..Len(returned) :
            returned[k].response /= None =>
                output_text(returned[k].response[1]) = legendary_responses["default"]

C10_Witness ==
    /\ system_instructions = Some("")
    /\ input = StrInput("A Legendary Sage in training")
    /\ Len(returned) = 2
    /\ returned[1].op /= returned[2].op
    /\ \A k \in 1..2 : output_text(returned[k].response[1]) = response_default

\* The number of words of the texts of a list input's items that carry text.
RECURSIVE ItemWords(_)
ItemWords(items) ==
    IF items = << >> THEN 0
    ELSE (IF Head(items).has_content /\ Head(items).content_is_str
          THEN WordCount(Head(items).content) ELSE 0) + ItemWords(Tail(items))

\* The number of whitespace-separated tokens of the user input.
InputWords ==
    IF input.kind = "str" THEN WordCount(input.value) ELSE ItemWords(input.items)

\* C11: every response's usage has requests = 1, input_tokens = the number of
\* whitespace-separated tokens of the user input (for a list: of its items'
\* string contents, 0 when none carries text), output_tokens = the number of
\* whitespace-separated tokens of the response text, and total_tokens = the
\* sum of the two.
C11_TokenAccounting ==
    \A k \in 1..Len(returned) :
        returned[k].response /= None =>
            LET r == returned[k].response[1]
            IN  /\ r.usage.requests = 1
                /\ r.usage.input_tokens = InputWords
                /\ r.usage.output_tokens = CannedWordCount[output_text(r)]
                /\ r.usage.total_tokens = r.usage.input_tokens + r.usage.output_tokens

C11_Witness ==
    /\ CallJustReturned
    /\ input.kind = "list"
    /\ Len(input.items) = 4
    /\ LastReturned.response[1].usage.input_tokens = 3
    /\ LastReturned.response[1].usage.output_tokens > 3
    /\ LastReturned.response[1].usage.total_tokens
         = 3 + LastReturned.response[1].usage.output_tokens

\* C13: the string generate_instructions returns is a function of the profile
\* value alone: whatever order the set of skill names is iterated in, the
\* assembled text an application appends is the same.
C13_AssemblerDeterministic ==
    \A k \in Applied :
        \A seed \in 1..NumHashSeeds :
            EndsWith(StrOf(applications[k].after.instructions),
                     generate_instructions(applications[k].profile, seed))

\* The six canonical profile names and the names the profiles carry.
CanonicalNames ==
    [ legendary_sage |-> "Legendary Sage", analytical_master |-> "Analytical Master",
      communication_expert |-> "Communication Expert",
      innovation_genius |-> "Innovation Genius", ethical_leader |-> "Ethical Leader",
      balanced_expert |-> "Balanced Expert" ]

\* C14: a lookup of one of the six canonical names returns that name's
\* profile and raises nothing; a lookup of any other name raises ValueError
\* 'Unknown profile ...' whose message lists all six canonical names, and
\* returns no profile.
C14_ProfileLookup ==
    \A k \in 1..Len(lookups) :
        LET l == lookups[k]
        IN  IF l.profile_name \in DOMAIN CanonicalNames
            THEN /\ l.raised = ""
                 /\ l.value /= None
                 /\ l.value[1].name = CanonicalNames[l.profile_name]
            ELSE /\ l.raised = "ValueError"
                 /\ l.value = None
                 /\ StartsWith(l.message, "Unknown profile '" \o l.profile_name \o "'")
                 /\ \A n \in DOMAIN CanonicalNames : Contains(n, l.message)

C14_Witness ==
    /\ Len(lookups) = 2
    /\ lookups[1].profile_name = "not_a_real_profile"
    /\ lookups[1].raised = "ValueError"
    /\ lookups[1].value = None
    /\ Contains("ethical_leader", lookups[1].message)
    /\ lookups[2].profile_name = "ethical_leader"
    /\ lookups[2].value /= None

\* C15: get_skill_objects returns exactly one module per name of the profile
\* that is a key of the registry, unknown names being dropped: its length is
\* the number of known names, at most the size of the name set.
C15_UnknownSkillsDropped ==
    \A k \in Applied :
        LET profile == applications[k].profile
            skill_objects == get_skill_objects(profile, hash_seed)
            known == profile.skill_domains \cap DOMAIN SKILL_DOMAINS
        IN  /\ Len(skill_objects) = Cardinality(known)
            /\ { skill_objects[j] : j \in 1..Len(skill_objects) }
                 = { SKILL_DOMAINS[domain] : domain \in known }
            /\ Len(skill_objects) <= Cardinality(profile.skill_domains)

C15_Witness ==
    /\ applications /= << >>
    /\ applications[1].profile.skill_domains = { "problem_solving", "invalid_domain" }
    /\ Len(get_skill_objects(applications[1].profile, hash_seed)) = 1
    /\ get_skill_objects(applications[1].profile, hash_seed)[1]
         = SKILL_DOMAINS["problem_solving"]
    /\ applications[1].after.instructions /= None

\* The text application k appended to the agent's instructions: what follows
\* the instructions held before and the blank line after them.
Appended(k) ==
    LET b == applications[k].before.instructions
        a == applications[k].after.instructions[1]
    IN  IF b = None \/ b = Some("") THEN a ELSE SubSeq(a, Len(b[1]) + 3, Len(a))

\* `block` stands in `text` at position `pos`.
BlockAt(text, pos, block) ==
    /\ pos + Len(block) - 1 <= Len(text)
    /\ SubSeq(text, pos, pos + Len(block) - 1) = block

\* `text` is exactly the blocks, in order, separated by single newlines.
RECURSIVE MatchBlocks(_, _, _)
MatchBlocks(text, pos, blocks) ==
    /\ blocks /= << >>
    /\ BlockAt(text, pos, Head(blocks))
    /\ LET next == pos + Len(Head(blocks))
       IN  IF Len(blocks) = 1 THEN next = Len(text) + 1
           ELSE /\ BlockAt(text, next, "\n")
                /\ MatchBlocks(text, next + 1, Tail(blocks))

IntensityBlockOf ==
    [ basic |-> << >>, intermediate |-> << >>,
      advanced |-> << intensity_block_ADVANCED >>,
      legendary |-> << intensity_block_LEGENDARY >> ]

FocusBlockOf ==
    [ analytical |-> << focus_block_ANALYTICAL >>,
      interpersonal |-> << focus_block_INTERPERSONAL >>,
      creative |-> << focus_block_CREATIVE >>,
      ethical |-> << focus_block_ETHICAL >>,
      comprehensive |-> << >> ]

\* The profile's known skill names in the order its set is iterated in.
ResolvedNames(profile) ==
    SelectSeq(HashOrder(hash_seed),
              LAMBDA n : n \in profile.skill_domains /\ n \in DOMAIN SKILL_DOMAINS)

RECURSIVE SkillBlocks(_)
SkillBlocks(names) ==
    IF names = << >> THEN << >>
    ELSE << "\n## " \o SKILL_DOMAINS[Head(names)].name \o "\n",
            SKILL_DOMAINS[Head(names)].get_instructions >>
         \o SkillBlocks(Tail(names))

PrincipleBlocks ==
    << "\n## Legendary Principles\n", "Always embody these legendary principles:" >>
    \o [ j \in 1..10 |-> "- " \o legendary_principles[j] ]

CustomBlock(profile) ==
    IF profile.custom_instructions = None \/ profile.custom_instructions = Some("")
    THEN << >>
    ELSE << "\n## Additional Instructions\n" \o profile.custom_instructions[1] >>

\* C16: the text an application appends is exactly, in this order and joined
\* by single newlines: the base instructions, the intensity block (if any),
\* the focus block (if any), for each resolved skill module its '## <name>'
\* header immediately followed by its instruction text, the 'Legendary
\* Principles' header and introduction followed by the ten principle lines in
\* their order, and the custom-instructions block (if any); nothing else.
C16_BlockOrder ==
    /\ Len(legendary_principles) = 10
    /\ \A k \in Applied :
           LET profile == applications[k].profile
           IN  MatchBlocks(Appended(k), 1,
                           << base_instructions >>
                           \o IntensityBlockOf[profile.intensity]
                           \o FocusBlockOf[profile.focus]
                           \o SkillBlocks(ResolvedNames(profile))
                           \o PrincipleBlocks
                           \o CustomBlock(profile))

C16_Witness ==
    /\ Len(applications) = 2
    /\ applications[1].before.instructions = Some("You are helpful.")
    /\ applications[1].profile.name = "Communication Expert"
    /\ applications[2].profile.name = "Test"
    /\ BlockAt(Appended(1), 1, base_instructions)
    /\ BlockAt(Appended(1), Len(base_instructions) + 2, intensity_block_LEGENDARY)
    /\ BlockAt(Appended(1),
               Len(base_instructions) + Len(intensity_block_LEGENDARY) + 3,
               focus_block_INTERPERSONAL)
    /\ EndsWith(Appended(2),
                "- " \o legendary_principles[10]
                \o "\n\n## Additional Instructions\nThis is custom training content.")

IntensityBlocks == { intensity_block_LEGENDARY, intensity_block_ADVANCED }

FocusBlocks ==
    { focus_block_ANALYTICAL, focus_block_INTERPERSONAL, focus_block_CREATIVE,
      focus_block_ETHICAL }

\* Two profiles that differ at most in intensity, both BASIC or INTERMEDIATE.
LowIntensityTwins(p, q) ==
    /\ p.intensity \in { "basic", "intermediate" }
    /\ q.intensity \in { "basic", "intermediate" }
    /\ [ p EXCEPT !.intensity = "basic" ] = [ q EXCEPT !.intensity = "basic" ]

\* The behaviour has made its first application and no other.
FirstApplication == Len(applications) = 1

\* C17: right after the base instructions the appended text has an intensity
\* block exactly when the intensity is LEGENDARY or ADVANCED, and after that
\* a focus block exactly when the focus is not COMPREHENSIVE; profiles that
\* differ only in intensity BASIC / INTERMEDIATE append identical texts; and a
\* text appended for BASIC or INTERMEDIATE contains no intensity block, one
\* appended for COMPREHENSIVE no focus block, anywhere (looked for in the
\* first application of every behaviour).
C17_IntensityFocusAsymmetry ==
    /\ \A k \in Applied :
           LET profile == applications[k].profile
               text == Appended(k)
               start == Len(base_instructions) + 2
               found == { b \in IntensityBlocks : BlockAt(text, start, b) }
               after == IF found = { } THEN start
                        ELSE start + Len(CHOOSE b \in found : TRUE) + 1
           IN  /\ (found /= { }) <=> (profile.intensity \in { "legendary", "advanced" })
               /\ (\E b \in FocusBlocks : BlockAt(text, after, b))
                      <=> (profile.focus /= "comprehensive")
    /\ \A j, k \in Applied :
           LowIntensityTwins(applications[j].profile, applications[k].profile)
               => Appended(j) = Appended(k)
    /\ FirstApplication =>
           LET profile == applications[1].profile
           IN  /\ profile.intensity \in { "basic", "intermediate" }
                      => \A b \in IntensityBlocks : ~Contains(b, Appended(1))
               /\ profile.focus = "comprehensive"
                      => \A b \in FocusBlocks : ~Contains(b, Appended(1))

C17_Witness ==
    /\ Len(applications) = 2
    /\ applications[1].profile.intensity = "basic"
    /\ applications[2].profile.intensity = "intermediate"
    /\ LowIntensityTwins(applications[1].profile, applications[2].profile)
    /\ applications[1].profile.focus = "comprehensive"
    /\ applications[1].before.instructions = None
    /\ Appended(1) = Appended(2)

\* The number of places where `sub` occurs in `s`.
OccurrenceCount(sub, s) ==
    Cardinality({ k \in 0..(Len(s) - Len(sub)) : SubSeq(s, k + 1, k + Len(sub)) = sub })

\* C18: when custom_instructions is None or "" the appended text has no
\* 'Additional Instructions' header; otherwise it ends with the header
\* followed by the custom text verbatim, and the header occurs exactly once
\* (occurrences counted in the first application of every behaviour).
C18_AdditionalInstructions ==
    /\ \A k \in Applied :
           LET custom == applications[k].profile.custom_instructions
               block == "\n\n## Additional Instructions\n" \o StrOf(custom)
           IN  EndsWith(Appended(k), block) <=> (custom /= None /\ custom /= Some(""))
    /\ FirstApplication =>
           LET custom == applications[1].profile.custom_instructions
           IN  OccurrenceCount("## Additional Instructions", Appended(1))
                   = IF custom = None \/ custom = Some("") THEN 0 ELSE 1

C18_Witness ==
    /\ FirstApplication
    /\ applications[1].profile.custom_instructions = Some("This is custom training content.")
    /\ EndsWith(Appended(1),
                "\n\n## Additional Instructions\nThis is custom training content.")
    /\ OccurrenceCount("## Additional Instructions", Appended(1)) = 1

HighReasoningEffort ==
    [ reasoning |-> Some([ effort |-> "high" ]), temperature |-> None, max_tokens |-> None ]

NumericFallback ==
    [ reasoning |-> None, temperature |-> Some("0.1"), max_tokens |-> Some(4000) ]

\* C19: the settings an application computed for its profile, which an agent
\* without settings receives, are none when enhanced_reasoning is false and
\* when the intensity is BASIC or INTERMEDIATE; for LEGENDARY or ADVANCED with
\* enhanced_reasoning they are the high-reasoning-effort settings when the
\* Reasoning type can be imported and the numeric fallback (temperature 0.1,
\* max_tokens 4000) only when it cannot.
C19_EnhancedModelSettings ==
    \A k \in Applied :
        LET profile == applications[k].profile
            settings == Enhanced(k)
        IN  /\ applications[k].before.model_settings = None
                   => applications[k].after.model_settings = settings
            /\ ~profile.enhanced_reasoning => settings = None
            /\ profile.intensity \in { "basic", "intermediate" } => settings = None
            /\ (profile.enhanced_reasoning /\ profile.intensity \in { "legendary", "advanced" })
                   => /\ reasoning_importable => settings = Some(HighReasoningEffort)
                      /\ ~reasoning_importable => settings = Some(NumericFallback)

C19_Witness ==
    /\ Len(applications) = 2
    /\ ~reasoning_importable
    /\ applications[1].before.model_settings = None
    /\ applications[1].profile.intensity = "advanced"
    /\ ~applications[1].profile.enhanced_reasoning
    /\ applications[1].after.model_settings = None
    /\ applications[2].profile.intensity = "advanced"
    /\ applications[2].profile.enhanced_reasoning
    /\ applications[2].after.model_settings = Some(NumericFallback)

\* C20: an application leaves the agent's name and model identifier as they
\* were, and the profile it was given as it was passed; at most the agent's
\* instructions and model settings differ after the call.
C20_FrameOfApplication ==
    \A k \in Applied :
        /\ applications[k].after.name = applications[k].before.name
        /\ applications[k].after.model = applications[k].before.model
        /\ applications[k].profile_after = applications[k].profile
        /\ applications[k].after
             = [ applications[k].before EXCEPT
                   !.instructions = applications[k].after.instructions,
                   !.model_settings = applications[k].after.model_settings ]

C20_Witness ==
    /\ Len(applications) = 2
    /\ applications[1].before.name = "Basic Agent"
    /\ applications[1].before.model = "gpt-4"
    /\ applications[1].before.instructions /= applications[2].after.instructions
    /\ applications[1].before.model_settings /= applications[2].after.model_settings
    /\ agents[1].name = "Basic Agent"
    /\ agents[1].model = "gpt-4"

\* The number of whitespace-separated tokens of the input task t passed.
TaskInputWords(t) ==
    IF tasks[t].input.kind = "str" THEN WordCount(tasks[t].input.value)
    ELSE ItemWords(tasks[t].input.items)

\* The text the call of task t selects when it runs with no other call in
\* flight: that of the lowest matching rule of the pristine table.
TextWhenAlone(t) ==
    IF TruthyStr(tasks[t].system_instructions)
    THEN RuleResponse(LowestMatchingRule(lower(tasks[t].system_instructions[1])))
    ELSE response_default

\* Response r is, up to its identifiers, the one task t's call returns alone.
AsWhenAlone(t, r) ==
    /\ output_text(r) = TextWhenAlone(t)
    /\ r.usage.requests = 1
    /\ r.usage.input_tokens = TaskInputWords(t)
    /\ r.usage.output_tokens = CannedWordCount[TextWhenAlone(t)]
    /\ r.usage.total_tokens = TaskInputWords(t) + CannedWordCount[TextWhenAlone(t)]

\* The latest event of task t's stream is the one its stream yields alone.
EventAsWhenAlone(t) ==
    LET e == tasks[t].event[1]
        n == tasks[t].n_events
    IN  IF e.type = "final"
        THEN n = CannedWordCount[TextWhenAlone(t)] + 1 /\ AsWhenAlone(t, e.response)
        ELSE /\ n <= CannedWordCount[TextWhenAlone(t)]
             /\ e.content = CannedPrefixes[TextWhenAlone(t)][n]
                             \o (IF n < CannedWordCount[TextWhenAlone(t)] THEN " " ELSE "")

\* C12: calls of get_response and stream_response on one StubModel may be
\* interleaved at their suspension points in any order: every call's response
\* text and token counts, and every event of every stream, are those of the
\* same call run alone; and neither the canned-response table, nor the skill
\* registry, nor a profile passed to an application is ever modified.
C12_ConcurrentCallsIndependent ==
    /\ self.legendary_responses = legendary_responses
    /\ skill_domains_registry = SKILL_DOMAINS
    /\ \A k \in Applied : applications[k].profile_after = applications[k].profile
    /\ \A t \in Tasks :
          /\ tasks[t].response /= None => AsWhenAlone(t, tasks[t].response[1])
          /\ tasks[t].result /= None => AsWhenAlone(t, tasks[t].result[1])
          /\ tasks[t].event /= None => EventAsWhenAlone(t)

\* Task t1 is in the middle of its stream while t2, whose get_response resumed
\* after t1's, has already returned a different text.
C12_Witness ==
    /\ tasks["t1"].op = "stream_response"
    /\ tasks["t1"].pc = "stream_response:loop"
    /\ tasks["t1"].n_events = 5
    /\ tasks["t2"].op = "get_response"
    /\ tasks["t2"].pc = "done"
    /\ tasks["t2"].result /= None
    /\ tasks["t1"].response[1].response_id = uuid4(2)
    /\ tasks["t2"].result[1].response_id = uuid4(4)
    /\ output_text(tasks["t1"].response[1]) = response_default
    /\ output_text(tasks["t2"].result[1]) = response_legendary_sage
    /\ tasks["t2"].result[1].usage.input_tokens = 2

(***************************************************************************)
(* The layers built on the core.  Each has its own driver and its own      *)
(* specification; the core's variables stay as constructed.                *)
(***************************************************************************)
core_vars ==
    << hash_seed, reasoning_importable, agents, applications, system_instructions,
       input, pc, caller, response, words, current_text, i, event, n_events,
       uuid_count, returned, self, skill_domains_registry, tasks, lookups >>

CoreIdle ==
    /\ InitObjects
    /\ DriversIdle
    /\ reasoning_importable = TRUE
    /\ agents = << >>
    /\ applications = << >>
    /\ system_instructions = None
    /\ input = StrInput("")
    /\ ModelIdle

(***************************************************************************)
(* Classification of assembled instructions: two profiles are assembled    *)
(* (generate_instructions) and each text is classified by the stub model   *)
(* (_generate_response), each with its own user input.                     *)
(***************************************************************************)
\* Names and descriptions, some of them carrying the stub's signatures.
ClassifyIdentities ==
    { << "Analytical Master", "Exceptional analytical and problem-solving abilities" >>,
      << "Legendary Sage", "Master-level capabilities across all domains" >>,
      << "Plain", "No skills" >> }

ClassifyShapes ==
    { << TrainingIntensity.BASIC, TrainingFocus.COMPREHENSIVE >>,
      << TrainingIntensity.ADVANCED, TrainingFocus.INTERPERSONAL >>,
      << TrainingIntensity.LEGENDARY, TrainingFocus.ANALYTICAL >> }

ClassifySkillSets == { { }, { "communication", "invalid_domain" } }

ClassifyCustoms == { None, Some("You are an innovation genius.") }

ClassifyProfiles ==
    { TrainingProfile(who[1], who[2], skills, shape[1], shape[2], custom, TRUE) :
        who \in ClassifyIdentities, shape \in ClassifyShapes,
        skills \in ClassifySkillSets, custom \in ClassifyCustoms }

\* The user inputs of the two classifications.
ClassifyInputs ==
    { << "Test question", "Tell me about legendary training" >>,
      << "You are a legendary sage", "You are a legendary sage" >> }

InitClassify ==
    /\ CoreIdle
    /\ scenario = "classify"
    /\ hash_seed = 1
    /\ cli = CliIdle
    /\ http = HttpIdle
    /\ RealtimeIdle
    /\ \E first \in ClassifyProfiles, second \in ClassifyProfiles :
       \E inputs \in ClassifyInputs :
           classified = [ pc |-> "ready",
                          first |-> first, second |-> second,
                          first_input |-> inputs[1], second_input |-> inputs[2] ]

\* Both profiles are assembled and classified.
ClassifyBoth ==
    /\ scenario = "classify"
    /\ classified.pc = "ready"
    /\ classified' =
         [ pc |-> "done",
           first |-> classified.first, second |-> classified.second,
           first_input |-> classified.first_input,
           second_input |-> classified.second_input,
           first_response |->
               _generate_response(Some(generate_instructions(classified.first, hash_seed)),
                                  classified.first_input),
           second_response |->
               _generate_response(Some(generate_instructions(classified.second, hash_seed)),
                                  classified.second_input) ]
    /\ UNCHANGED << scenario, cli, http, manager, sockets >>
    /\ UNCHANGED core_vars

ClassifyNext == ClassifyBoth

ClassifySpec == InitClassify /\ [][ClassifyNext]_vars


(***************************************************************************)
(* cli/main.py: the chat and demo commands.  Runner.run is the inference   *)
(* backend: a call either returns a result or raises an Exception.         *)
(***************************************************************************)
MaxPrompts == 3      \* typer.prompt calls per interactive session

\* create_legendary_agent(name, profile, base_instructions, model).
create_legendary_agent(name, profile, agent_base_instructions, model, seed, importable) ==
    LET training_instructions == generate_instructions(profile, seed)
        final_instructions ==
            IF TruthyStr(agent_base_instructions)
            THEN agent_base_instructions[1] \o "\n\n" \o training_instructions
            ELSE training_instructions
        enhanced_model_settings == create_enhanced_model_settings(profile, importable)
    IN  Agent(name, Some(final_instructions),
              IF TruthyStr(model) THEN model[1] ELSE "gpt-5",
              enhanced_model_settings)

\* str.replace(old, new) for a one-character `old`.
RECURSIVE replace(_, _, _)
replace(s, old, new) ==
    IF s = "" THEN ""
    ELSE (IF SubSeq(s, 1, 1) = old THEN new ELSE SubSeq(s, 1, 1))
         \o replace(SubSeq(s, 2, Len(s)), old, new)

\* The values the command line passes.
CliProfileArgs == { "legendary_sage", "communication_expert", "invalid_profile", "" }

CliMessageArgs == { None, Some(""), Some("test") }

\* What the user types at a prompt (typer.prompt asks again on an empty line).
CliUserInputs == { "hello", "quit now", "quit", "Exit" }

\* How a call of Runner.run ends: "ok", or the class of the Exception raised.
RunOutcomes == { "ok", "RuntimeError", "ValueError" }

InitCli ==
    /\ CoreIdle
    /\ scenario = "cli"
    /\ hash_seed = 1
    /\ classified = ClassifiedNone
    /\ cli = CliIdle
    /\ http = HttpIdle
    /\ RealtimeIdle

\* The command's state when its function is entered.
CliStart(command, profile, message, no_interactive) ==
    [ pc |-> "idle", command |-> command, profile |-> profile, message |-> message,
      no_interactive |-> no_interactive, console |-> << >>, agent |-> None,
      created |-> << >>, runs |-> << >>, session |-> "none", prompts |-> 0,
      typed |-> << >>, import_ok |-> FALSE, demo_index |-> 0, exit_code |-> None ]

Printed(kind, text) == [ kind |-> kind, text |-> text ]

\* console.print(f"[red]Error: {e}[/red]").
PrintedError(e) == Printed("error", "Error: " \o e)

\* What the command prints for the outcome of `await Runner.run(...)` inside
\* try / except Exception (lines 97-101, 119-123, 193-197).
PrintedOutcome(outcome) ==
    IF outcome = "ok" THEN Printed("panel", "result.final_output")
    ELSE PrintedError(outcome)

RunRecord(agent_name, text, outcome) ==
    [ agent |-> agent_name, input |-> text, outcome |-> outcome ]

\* Mutant: `else:` instead of `elif not no_interactive:`.
chat_mode_ignoring_no_interactive(message, no_interactive) ==
    IF TruthyStr(message) THEN "single" ELSE "session"

\* Lines 84-89: which coroutine chat_with_agent runs.
chat_mode(message, no_interactive) ==
    IF TruthyStr(message) THEN "single"
    ELSE IF ~no_interactive THEN "session"
    ELSE "none"

\* Lines 68-89: the agent is created, its panel printed, the mode entered.
ChatWithProfile(start, training_profile) ==
    LET agent == create_legendary_agent("Legendary " \o training_profile.name,
                                        training_profile, None, None,
                                        hash_seed, reasoning_importable)
        ready == [ start EXCEPT !.agent = Some(agent),
                                !.created = << agent.name >>,
                                !.console = << Printed("panel", agent.name) >> ]
        mode == chat_mode(start.message, start.no_interactive)
    IN  CASE mode = "single" ->
               [ ready EXCEPT !.console = @ \o << Printed("you", start.message[1]),
                                                  Printed("heading", "Legendary Agent:") >>,
                              !.pc = "single:run" ]
          [] mode = "session" ->
               [ ready EXCEPT !.console = @ \o << Printed("info", "Starting interactive session.") >>,
                              !.session = "open",
                              !.pc = "session:prompt" ]
          [] mode = "none" ->
               [ ready EXCEPT !.pc = "done", !.exit_code = Some(0) ]

\* Mutant: an unknown name falls back to the balanced_expert profile.
CliChat_with_fallback ==
    /\ scenario = "cli"
    /\ cli.pc = "idle"
    /\ \E profile \in CliProfileArgs, message \in CliMessageArgs, no_interactive \in BOOLEAN :
          LET outcome == get_training_profile(profile)
              start == CliStart("chat", Some(profile), message, no_interactive)
          IN  cli' = IF outcome.raised = "ValueError"
                     THEN ChatWithProfile(start, profiles["balanced_expert"])
                     ELSE ChatWithProfile(start, outcome.value)
    /\ UNCHANGED << scenario, classified, http, manager, sockets >>
    /\ UNCHANGED core_vars

\* `agents chat PROFILE [-m MESSAGE] [--no-interactive]` (lines 52-89), up to
\* the coroutine it runs.
CliChat ==
    /\ scenario = "cli"
    /\ cli.pc = "idle"
    /\ \E profile \in CliProfileArgs, message \in CliMessageArgs, no_interactive \in BOOLEAN :
          LET outcome == get_training_profile(profile)
              start == CliStart("chat", Some(profile), message, no_interactive)
          IN  cli' = IF outcome.raised = "ValueError"
                     THEN [ start EXCEPT
                              !.console = << PrintedError(outcome.message),
                                             Printed("info", "Use 'agents list-profiles' to see available profiles") >>,
                              !.pc = "done", !.exit_code = Some(0) ]
                     ELSE ChatWithProfile(start, outcome.value)
    /\ UNCHANGED << scenario, classified, http, manager, sockets >>
    /\ UNCHANGED core_vars

\* _run_single_message (lines 92-101): the run returns or raises.
CliRunSingle ==
    /\ cli.pc = "single:run"
    /\ \E outcome \in RunOutcomes :
          cli' = [ cli EXCEPT
                     !.runs = Append(@, RunRecord(cli.agent[1].name, cli.message[1], outcome)),
                     !.console = Append(@, PrintedOutcome(outcome)),
                     !.pc = "done",
                     !.exit_code = Some(0) ]
    /\ UNCHANGED << scenario, classified, http, manager, sockets >>
    /\ UNCHANGED core_vars

\* Mutant: the quit words are compared without lower().
is_quit_word_case_sensitive(user_input) == user_input \in { "quit", "exit" }

\* Line 113.
is_quit_word(user_input) == lower(user_input) \in { "quit", "exit" }

\* _run_interactive_session, lines 109-118: the prompt returns what the user
\* typed, or the user presses Ctrl+C (line 125).
CliPrompt ==
    /\ cli.pc = "session:prompt"
    /\ cli.prompts < MaxPrompts
    /\ \/ \E user_input \in CliUserInputs :
             cli' = IF is_quit_word(user_input)
                    THEN [ cli EXCEPT !.prompts = @ + 1,
                                      !.typed = Append(@, user_input),
                                      !.console = Append(@, Printed("info", "Ending session. Farewell!")),
                                      !.session = "ended",
                                      !.pc = "done", !.exit_code = Some(0) ]
                    ELSE [ cli EXCEPT !.prompts = @ + 1,
                                      !.typed = Append(@, user_input),
                                      !.console = Append(@, Printed("heading", "Legendary Agent:")),
                                      !.pc = "session:run" ]
       \/ cli' = [ cli EXCEPT !.prompts = @ + 1,
                              !.console = Append(@, Printed("info", "Session interrupted. Farewell!")),
                              !.session = "interrupted",
                              !.pc = "done", !.exit_code = Some(0) ]
    /\ UNCHANGED << scenario, classified, http, manager, sockets >>
    /\ UNCHANGED core_vars

\* Mutant: an exception of the run leaves the loop.
CliSessionRun_leaving ==
    /\ cli.pc = "session:run"
    /\ \E outcome \in RunOutcomes :
          cli' = [ cli EXCEPT
                     !.runs = Append(@, RunRecord(cli.agent[1].name,
                                                  cli.typed[Len(cli.typed)], outcome)),
                     !.console = Append(@, PrintedOutcome(outcome)),
                     !.session = IF outcome = "ok" THEN @ ELSE "ended",
                     !.pc = IF outcome = "ok" THEN "session:prompt" ELSE "done",
                     !.exit_code = IF outcome = "ok" THEN @ ELSE Some(0) ]
    /\ UNCHANGED << scenario, classified, http, manager, sockets >>
    /\ UNCHANGED core_vars

\* _run_interactive_session, lines 119-123: the run returns or raises, and
\* the loop goes on.
CliSessionRun ==
    /\ cli.pc = "session:run"
    /\ \E outcome \in RunOutcomes :
          cli' = [ cli EXCEPT
                     !.runs = Append(@, RunRecord(cli.agent[1].name,
                                                  cli.typed[Len(cli.typed)], outcome)),
                     !.console = Append(@, PrintedOutcome(outcome)),
                     !.pc = "session:prompt" ]
    /\ UNCHANGED << scenario, classified, http, manager, sockets >>
    /\ UNCHANGED core_vars

\* _demo_profile's dict of challenges (lines 176-188), by profile key.
challenges ==
    [ legendary_sage |-> "How would you approach solving climate change while balancing economic growth, social equity, and environmental protection?",
      analytical_master |-> "Analyze the potential long-term impacts of artificial intelligence on society, considering technological, economic, and ethical dimensions.",
      communication_expert |-> "Explain blockchain technology to three different audiences: a 10-year-old, a business executive, and a technical developer.",
      innovation_genius |-> "Design innovative solutions for reducing urban traffic congestion without traditional infrastructure expansion.",
      ethical_leader |-> "How should organizations handle AI bias in hiring while maintaining efficiency and legal compliance?",
      balanced_expert |-> "What framework would you use to make a complex life decision involving career change, family impact, and financial considerations?" ]

challenge_for(profile) ==
    LET key == replace(replace(lower(profile.name), " ", "_"), "-", "_")
    IN  IF key \in DOMAIN challenges THEN challenges[key]
        ELSE "Share your thoughts on how to approach complex, multi-faceted challenges that require wisdom across multiple domains."

\* The agents the full demonstration creates, in order: by
\* examples/legendary_training/main.py when it imports, by _demo_all_profiles
\* (lines 238-251) otherwise.
FullDemoAgents(import_ok) ==
    IF import_ok
    THEN << "The Legendary Sage", "The Analytical Master", "The Communication Expert",
            "The Innovation Genius", "Research Specialist", "Basic Assistant" >>
    ELSE [ k \in 1..Len(PROFILE_NAMES) |-> "Demo " \o profiles[PROFILE_NAMES[k]].name ]

\* `agents demo [-p PROFILE]` (lines 129-166), up to the coroutine it runs.
CliDemo ==
    /\ scenario = "cli"
    /\ cli.pc = "idle"
    /\ \E profile \in { None } \cup { Some(name) : name \in CliProfileArgs }, import_ok \in BOOLEAN :
          LET start == CliStart("demo", profile, None, FALSE)
          IN  IF TruthyStr(profile)
              THEN LET outcome == get_training_profile(profile[1])
                   IN  /\ ~import_ok
                       /\ cli' =
                            IF outcome.raised = "ValueError"
                            THEN [ start EXCEPT !.console = << PrintedError(outcome.message) >>,
                                                !.pc = "done", !.exit_code = Some(0) ]
                            ELSE LET agent == create_legendary_agent(
                                                  "Demo " \o outcome.value.name, outcome.value,
                                                  None, None, hash_seed, reasoning_importable)
                                 IN  [ start EXCEPT
                                         !.console = << Printed("heading", "Demonstrating " \o outcome.value.name),
                                                        Printed("challenge", challenge_for(outcome.value)),
                                                        Printed("heading", agent.name \o " Response:") >>,
                                         !.agent = Some(agent),
                                         !.created = << agent.name >>,
                                         !.pc = "demo:run" ]
              ELSE cli' = [ start EXCEPT
                              !.console = << Printed("panel", "Welcome to Legendary Training") >>
                                          \o (IF import_ok THEN << >>
                                              ELSE << Printed("warning", "Full demo module not available. Running basic demo...") >>),
                              !.import_ok = import_ok,
                              !.pc = "demo:full" ]
    /\ UNCHANGED << scenario, classified, http, manager, sockets >>
    /\ UNCHANGED core_vars

\* _demo_profile, lines 193-197: the run returns or raises.
CliDemoRun ==
    /\ cli.pc = "demo:run"
    /\ \E outcome \in RunOutcomes :
          cli' = [ cli EXCEPT
                     !.runs = Append(@, RunRecord(cli.agent[1].name,
                                                  cli.console[2].text, outcome)),
                     !.console = Append(@, PrintedOutcome(outcome)),
                     !.pc = "done",
                     !.exit_code = Some(0) ]
    /\ UNCHANGED << scenario, classified, http, manager, sockets >>
    /\ UNCHANGED core_vars

\* One demonstration of the full demo: an agent is created and run once; an
\* exception of the run is caught and printed (main.py lines 197-202 of the
\* example, cli/main.py lines 243-251).
CliFullDemoStep ==
    /\ cli.pc = "demo:full"
    /\ \E outcome \in RunOutcomes :
          LET k == cli.demo_index + 1
              agent_name == FullDemoAgents(cli.import_ok)[k]
          IN  cli' = [ cli EXCEPT
                         !.demo_index = k,
                         !.created = Append(@, agent_name),
                         !.runs = Append(@, RunRecord(agent_name, "challenge", outcome)),
                         !.console = Append(@, PrintedOutcome(outcome)),
                         !.pc = IF k = Len(FullDemoAgents(cli.import_ok)) THEN "done" ELSE @,
                         !.exit_code = IF k = Len(FullDemoAgents(cli.import_ok)) THEN Some(0) ELSE @ ]
    /\ UNCHANGED << scenario, classified, http, manager, sockets >>
    /\ UNCHANGED core_vars

CliNext ==
    \/ CliChat
    \/ CliRunSingle
    \/ CliPrompt
    \/ CliSessionRun
    \/ CliDemo
    \/ CliDemoRun
    \/ CliFullDemoStep

CliSpec == InitCli /\ [][CliNext]_vars

(***************************************************************************)
(* api/main.py: POST /chat and POST /chat/stream.                          *)
(***************************************************************************)
MaxStreamEvents == 3     \* events the agent's stream yields per request

\* ChatRequest.profile values ("balanced_expert" is the default).
ApiProfileArgs == { "balanced_expert", "legendary_sage", "invalid_profile" }

\* The events result_stream.stream_events() yields: with `type` and `data`
\* attributes (line 219), or without (line 221).
StreamEvents ==
    { [ has_type_and_data |-> TRUE, data |-> "delta", str |-> "RawResponsesStreamEvent(...)" ],
      [ has_type_and_data |-> FALSE, data |-> "", str |-> "RunItemStreamEvent(...)" ] }

InitApi ==
    /\ CoreIdle
    /\ scenario = "api"
    /\ hash_seed = 1
    /\ classified = ClassifiedNone
    /\ cli = CliIdle
    /\ http = HttpIdle
    /\ RealtimeIdle

\* Lines 168-176 and 203-211: the profile is looked up and the agent created;
\* the ValueError of the lookup becomes an HTTPException with status 400.
HttpRequest(route, profile, running) ==
    LET outcome == get_training_profile(profile)
        request == [ pc |-> "idle", route |-> route, profile |-> profile,
                     status |-> None, detail |-> "", agent |-> None,
                     run |-> None, chunks |-> << >>, n_events |-> 0, raised |-> None ]
    IN  IF outcome.raised = "ValueError"
        THEN [ request EXCEPT !.status = Some(400),
                              !.detail = "Invalid training profile: " \o outcome.message,
                              !.pc = "done" ]
        ELSE [ request EXCEPT
                 !.agent = Some(create_legendary_agent("Legendary " \o outcome.value.name,
                                                       outcome.value, None, None,
                                                       hash_seed, reasoning_importable)),
                 !.pc = running ]

\* POST /chat, up to `await Runner.run(agent, request.message)`.
HttpChat ==
    /\ scenario = "api"
    /\ http.pc = "idle"
    /\ \E profile \in ApiProfileArgs : http' = HttpRequest("/chat", profile, "chat:run")
    /\ UNCHANGED << scenario, classified, cli, manager, sockets >>
    /\ UNCHANGED core_vars

\* POST /chat, lines 179-196: the run returns (200) or raises; a ValueError is
\* caught by the first handler (400), any other Exception by the second (500).
HttpChatRun ==
    /\ http.pc = "chat:run"
    /\ \E outcome \in RunOutcomes :
          http' = [ http EXCEPT
                      !.run = Some(outcome),
                      !.status = IF outcome = "ok" THEN Some(200)
                                 ELSE IF outcome = "ValueError" THEN Some(400)
                                 ELSE Some(500),
                      !.detail = IF outcome = "ok" THEN "result.final_output"
                                 ELSE IF outcome = "ValueError"
                                 THEN "Invalid training profile: " \o outcome
                                 ELSE "Error processing request: " \o outcome,
                      !.pc = "done" ]
    /\ UNCHANGED << scenario, classified, cli, manager, sockets >>
    /\ UNCHANGED core_vars

\* POST /chat/stream, lines 203-237: the StreamingResponse is returned with
\* the generator not yet started.
HttpChatStream ==
    /\ scenario = "api"
    /\ http.pc = "idle"
    /\ \E profile \in ApiProfileArgs :
          LET request == HttpRequest("/chat/stream", profile, "stream:open")
          IN  http' = IF request.pc = "stream:open"
                      THEN [ request EXCEPT !.status = Some(200) ]
                      ELSE request
    /\ UNCHANGED << scenario, classified, cli, manager, sockets >>
    /\ UNCHANGED core_vars

\* generate_stream, line 216: Runner.run_streamed returns the stream.
HttpStreamOpen ==
    /\ http.pc = "stream:open"
    /\ http' = [ http EXCEPT !.pc = "stream:events" ]
    /\ UNCHANGED << scenario, classified, cli, manager, sockets >>
    /\ UNCHANGED core_vars

\* Lines 218-223: the stream yields an event and its chunk is sent.
HttpStreamEvent ==
    /\ http.pc = "stream:events"
    /\ http.n_events < MaxStreamEvents
    /\ \E ev \in StreamEvents :
          http' = [ http EXCEPT
                      !.n_events = @ + 1,
                      !.chunks = Append(@, "data: "
                                           \o (IF ev.has_type_and_data THEN ev.data ELSE ev.str)
                                           \o "\n\n") ]
    /\ UNCHANGED << scenario, classified, cli, manager, sockets >>
    /\ UNCHANGED core_vars

\* Mutant: the [DONE] chunk is yielded inside the try block, after the loop.
HttpStreamRaises_without_done ==
    /\ http.pc \in { "stream:open", "stream:events" }
    /\ \E e \in RunOutcomes \ { "ok" } :
          http' = [ http EXCEPT
                      !.raised = Some(e),
                      !.chunks = Append(@, "data: {\"error\": \"" \o e \o "\"}\n\n"),
                      !.pc = "done" ]
    /\ UNCHANGED << scenario, classified, cli, manager, sockets >>
    /\ UNCHANGED core_vars

\* Lines 225-226: run_streamed or the stream raises; the error chunk is sent.
HttpStreamRaises ==
    /\ http.pc \in { "stream:open", "stream:events" }
    /\ \E e \in RunOutcomes \ { "ok" } :
          http' = [ http EXCEPT
                      !.raised = Some(e),
                      !.chunks = Append(@, "data: {\"error\": \"" \o e \o "\"}\n\n"),
                      !.pc = "stream:error" ]
    /\ UNCHANGED << scenario, classified, cli, manager, sockets >>
    /\ UNCHANGED core_vars

\* Line 228: after the stream is exhausted, or after the error chunk, the
\* [DONE] chunk is sent and the generator returns.
HttpStreamDone ==
    /\ http.pc \in { "stream:events", "stream:error" }
    /\ http' = [ http EXCEPT !.chunks = Append(@, "data: [DONE]\n\n"), !.pc = "done" ]
    /\ UNCHANGED << scenario, classified, cli, manager, sockets >>
    /\ UNCHANGED core_vars

ApiNext ==
    \/ HttpChat
    \/ HttpChatRun
    \/ HttpChatStream
    \/ HttpStreamOpen
    \/ HttpStreamEvent
    \/ HttpStreamRaises
    \/ HttpStreamDone

ApiSpec == InitApi /\ [][ApiNext]_vars

(***************************************************************************)
(* The realtime example's websocket server                                 *)
(* (examples/realtime/app/server.py).  Every connection runs three          *)
(* coroutines on one event loop: the handler websocket_endpoint, the task  *)
(* _process_events and the task _flush_audio_loop.  A coroutine runs        *)
(* without interruption between two awaits, so one action is the code from *)
(* one await to the next.  Each session id is connected at most once.       *)
(***************************************************************************)

\* Bound: the session events yielded, over all sessions.
MaxSessionEvents == 2

\* Python dicts as functions: d[key] = value, del d[key], d.get(key).
dict_set(d, key, value) == [ k \in DOMAIN d \cup { key } |-> IF k = key THEN value ELSE d[k] ]

dict_del(d, key) == [ k \in DOMAIN d \ { key } |-> d[k] ]

dict_get(d, key) == IF key \in DOMAIN d THEN Some(d[key]) ELSE None

\* base64.b64encode(b).decode("utf-8"): three bytes become four characters
\* of the alphabet, the last group is padded with "=".
b64_alphabet == "ABCDEFGHIJKLMNOPQRSTUVWXYZabcdefghijklmnopqrstuvwxyz0123456789+/"

b64_char(k) == SubSeq(b64_alphabet, k + 1, k + 1)

RECURSIVE b64encode(_)
b64encode(b) ==
    IF Len(b) = 0 THEN ""
    ELSE IF Len(b) = 1 THEN
        b64_char(b[1] \div 4) \o b64_char((b[1] % 4) * 16) \o "=="
    ELSE IF Len(b) = 2 THEN
        b64_char(b[1] \div 4) \o b64_char((b[1] % 4) * 16 + b[2] \div 16)
            \o b64_char((b[2] % 16) * 4) \o "="
    ELSE
        b64_char(b[1] \div 4) \o b64_char((b[1] % 4) * 16 + b[2] \div 16)
            \o b64_char((b[2] % 16) * 4 + b[3] \div 64) \o b64_char(b[3] % 64)
            \o b64encode(SubSeq(b, 4, Len(b)))

\* struct.pack("<" + f"{len(int16_data)}h", *int16_data): two bytes per value,
\* low byte first; a value outside the int16 range raises struct.error.
RECURSIVE struct_pack(_)
struct_pack(int16_data) ==
    IF Len(int16_data) = 0 THEN [ raised |-> "", value |-> << >> ]
    ELSE IF int16_data[1] < -32768 \/ int16_data[1] > 32767
    THEN [ raised |-> "struct.error", value |-> << >> ]
    ELSE LET rest == struct_pack(Tail(int16_data))
             value == int16_data[1] % 65536
         IN  IF rest.raised # "" THEN rest
             ELSE [ raised |-> "", value |-> << value % 256, value \div 256 >> \o rest.value ]

\* What the client sends: the text of a websocket message, given here by what
\* json.loads makes of it (None: the text is not JSON).
ClientMessages ==
    { [ json |-> None ],
      [ json |-> Some([ text |-> "hello" ]) ],
      [ json |-> Some([ type |-> "ping" ]) ],
      [ json |-> Some([ type |-> "audio", data |-> << 1, -2 >> ]) ],
      [ json |-> Some([ type |-> "audio", data |-> << 40000 >> ]) ] }

\* Whether an awaited send (RealtimeSession.send_audio, WebSocket.send_text)
\* returns or raises.
SendOutcomes == { "ok", "raises" }

\* The PCM bytes of a session's k-th audio event: one byte or two, that no
\* other audio event of any session carries.
AudioData(session_id, k) ==
    LET first == (IF session_id = "s1" THEN 0 ELSE 100) + k
    IN  IF k % 2 = 1 THEN << first >> ELSE << first, 255 - first >>

\* The events a session may yield next, its k-th audio event among them.
SessionEvents(session_id, k) ==
    { [ type |-> "audio", data |-> AudioData(session_id, k) ],
      [ type |-> "agent_start", agent |-> "Assistant" ] }

RECURSIVE EventsYielded(_, _)
EventsYielded(s, ids) ==
    IF ids = {} THEN 0
    ELSE LET session_id == CHOOSE id \in ids : TRUE
         IN  (IF s[session_id].handler = "none" THEN 0 ELSE s[session_id].events)
                 + EventsYielded(s, ids \ { session_id })

InitRealtime ==
    /\ CoreIdle
    /\ scenario = "realtime"
    /\ hash_seed = 1
    /\ classified = ClassifiedNone
    /\ cli = CliIdle
    /\ http = HttpIdle
    /\ RealtimeIdle

\* Lines 42-64, connect, called at line 189: the websocket is accepted, the
\* session entered, all five dicts get the session id, both tasks are created
\* and the handler waits in receive_text.
connect(m, session_id) ==
    [ m EXCEPT !.websockets = dict_set(@, session_id, session_id),
               !.active_sessions = dict_set(@, session_id, session_id),
               !.session_contexts = dict_set(@, session_id, session_id),
               !._pending_audio = dict_set(@, session_id, << >>),
               !._audio_flush_tasks = dict_set(@, session_id, session_id) ]

SocketConnected ==
    [ handler |-> "receiving", ended_by |-> "", context |-> "entered",
      process |-> "iterating", events |-> 0, audio_events |-> 0,
      flush |-> [ pc |-> "sleeping", b |-> << >>, cancelled |-> FALSE, failed |-> FALSE ],
      received |-> << >>, ws_sent |-> << >> ]

RtConnect(session_id) ==
    /\ scenario = "realtime"
    /\ sockets[session_id].handler = "none"
    /\ manager' = connect(manager, session_id)
    /\ sockets' = [ sockets EXCEPT ![session_id] = SocketConnected ]
    /\ UNCHANGED << scenario, classified, cli, http >>
    /\ UNCHANGED core_vars

\* Lines 192-200: what one pass of the receive loop does with a message: the
\* exception that leaves the loop ("" for none) and the bytes the session's
\* send_audio has taken.
handle_message(m, session_id, message, send_outcome) ==
    IF message.json = None THEN [ end |-> "JSONDecodeError", audio |-> None ]
    ELSE LET parsed == message.json[1]
         IN  IF "type" \notin DOMAIN parsed THEN [ end |-> "KeyError", audio |-> None ]
             ELSE IF parsed.type # "audio" THEN [ end |-> "", audio |-> None ]
             ELSE LET audio_bytes == struct_pack(parsed.data)
                  IN  IF audio_bytes.raised # ""
                      THEN [ end |-> audio_bytes.raised, audio |-> None ]
                      ELSE IF session_id \notin DOMAIN m.active_sessions
                      THEN [ end |-> "", audio |-> None ]
                      ELSE IF send_outcome = "raises"
                      THEN [ end |-> "send_audio", audio |-> None ]
                      ELSE [ end |-> "", audio |-> Some(audio_bytes.value) ]

\* Lines 191-200: receive_text returns a message and the loop body runs.  None
\* of the exceptions of the body is caught at line 202, so each of them ends
\* the handler with the manager as it stands.
RtReceive(session_id) ==
    /\ scenario = "realtime"
    /\ sockets[session_id].handler = "receiving"
    /\ \E message \in ClientMessages, send_outcome \in SendOutcomes :
        LET handled == handle_message(manager, session_id, message, send_outcome)
        IN  sockets' = [ sockets EXCEPT ![session_id] =
                [ @ EXCEPT !.handler = IF handled.end = "" THEN "receiving" ELSE "ended",
                           !.ended_by = handled.end ] ]
    /\ UNCHANGED << scenario, classified, cli, http, manager >>
    /\ UNCHANGED core_vars

\* Lines 191, 202-203 and 67-68: receive_text raises WebSocketDisconnect, the
\* handler enters disconnect and awaits the session context's __aexit__.
RtClientDisconnects(session_id) ==
    /\ scenario = "realtime"
    /\ sockets[session_id].handler = "receiving"
    /\ session_id \in DOMAIN manager.session_contexts
    /\ sockets' = [ sockets EXCEPT ![session_id].handler = "disconnect" ]
    /\ UNCHANGED << scenario, classified, cli, http, manager >>
    /\ UNCHANGED core_vars

\* Python's `del d[key]`, which raises KeyError for a missing key.
py_del(d, key) ==
    IF key \in DOMAIN d THEN [ raised |-> "", value |-> dict_del(d, key) ]
    ELSE [ raised |-> "KeyError", value |-> d ]

\* `if session_id in self.<field>: del self.<field>[session_id]`, skipped
\* when an earlier statement has raised.
del_if_present(state, field, session_id) ==
    IF state.raised # "" \/ session_id \notin DOMAIN state.manager[field] THEN state
    ELSE [ raised |-> py_del(state.manager[field], session_id).raised,
           manager |-> [ state.manager EXCEPT
                           ![field] = py_del(state.manager[field], session_id).value ] ]

\* Mutant: lines 74-75 are missing, the pending buffer stays.
disconnect_leaving_pending_audio(m, session_id) ==
    del_if_present(
        del_if_present(
            del_if_present(
                del_if_present([ raised |-> "", manager |-> m ],
                               "session_contexts", session_id),
                "active_sessions", session_id),
            "websockets", session_id),
        "_audio_flush_tasks", session_id)

\* Lines 66-78, disconnect, once __aexit__ has returned: the five tests and
\* deletions in the code's order, with no await between them.
disconnect(m, session_id) ==
    del_if_present(
        del_if_present(
            del_if_present(
                del_if_present(
                    del_if_present([ raised |-> "", manager |-> m ],
                                   "session_contexts", session_id),
                    "active_sessions", session_id),
                "websockets", session_id),
            "_pending_audio", session_id),
        "_audio_flush_tasks", session_id)

\* Lines 68-78: __aexit__ has returned; the entries are deleted, the flush
\* task is cancelled (it sees the cancellation at its next await) and the
\* handler returns.
RtDisconnectCompletes(session_id) ==
    /\ scenario = "realtime"
    /\ sockets[session_id].handler = "disconnect"
    /\ LET done == disconnect(manager, session_id)
       IN  /\ manager' = done.manager
           /\ sockets' = [ sockets EXCEPT ![session_id] =
                   [ @ EXCEPT !.handler = "ended",
                              !.ended_by = IF done.raised = "" THEN "WebSocketDisconnect"
                                           ELSE done.raised,
                              !.context = "exited",
                              !.flush = IF session_id \in DOMAIN manager._audio_flush_tasks
                                        THEN [ @ EXCEPT !.cancelled = TRUE ] ELSE @ ] ]
    /\ UNCHANGED << scenario, classified, cli, http >>
    /\ UNCHANGED core_vars

\* Lines 66-78 for an id no websocket has connected with: the test of line
\* 67 fails, so nothing is awaited.  One such call is made for an id.
RtDisconnectUnknown(session_id) ==
    /\ scenario = "realtime"
    /\ sockets[session_id].handler = "none"
    /\ sockets[session_id].disconnect_raised = << >>
    /\ session_id \notin DOMAIN manager.session_contexts
    /\ LET done == disconnect(manager, session_id)
       IN  /\ manager' = done.manager
           /\ sockets' = [ sockets EXCEPT ![session_id].disconnect_raised =
                                              << done.raised >> ]
    /\ UNCHANGED << scenario, classified, cli, http >>
    /\ UNCHANGED core_vars

\* Lines 96-151, _serialize_event: None for an audio event, whose bytes go to
\* the pending buffer (line 115), the event's message otherwise.
_serialize_event(session_event) ==
    IF session_event.type = "audio" THEN None
    ELSE IF session_event.type = "agent_start"
    THEN Some([ type |-> session_event.type, agent |-> session_event.agent ])
    ELSE Some([ type |-> session_event.type ])

\* Lines 89-94: the session yields an event.  An audio event extends the
\* pending buffer, and raises KeyError when disconnect has deleted it; any
\* other event is sent to the websocket, which may fail.  Every exception
\* ends the task (line 93).
RtSessionEvent(session_id) ==
    /\ scenario = "realtime"
    /\ sockets[session_id].handler # "none"
    /\ sockets[session_id].process = "iterating"
    /\ EventsYielded(sockets, SessionIds) < MaxSessionEvents
    /\ \E session_event \in SessionEvents(session_id, sockets[session_id].audio_events + 1),
          send_outcome \in SendOutcomes :
        LET event_data == _serialize_event(session_event)
            is_audio == session_event.type = "audio"
            buffered == is_audio /\ session_id \in DOMAIN manager._pending_audio
            failed == \/ is_audio /\ ~buffered
                      \/ event_data # None /\ send_outcome = "raises"
        IN  /\ manager' = IF buffered
                          THEN [ manager EXCEPT !._pending_audio[session_id] =
                                                     @ \o session_event.data ]
                          ELSE manager
            /\ sockets' = [ sockets EXCEPT ![session_id] =
                    [ @ EXCEPT !.received = IF buffered THEN @ \o session_event.data ELSE @,
                               !.ws_sent = IF event_data # None /\ send_outcome = "ok"
                                           THEN Append(@, event_data[1]) ELSE @,
                               !.process = IF failed THEN "ended" ELSE @,
                               !.events = @ + 1,
                               !.audio_events = IF is_audio THEN @ + 1 ELSE @ ] ]
    /\ UNCHANGED << scenario, classified, cli, http >>
    /\ UNCHANGED core_vars

\* Line 89: the session's iteration ends, as it does once the session closed.
RtProcessEnds(session_id) ==
    /\ scenario = "realtime"
    /\ sockets[session_id].handler # "none"
    /\ sockets[session_id].process = "iterating"
    /\ sockets' = [ sockets EXCEPT ![session_id].process = "ended" ]
    /\ UNCHANGED << scenario, classified, cli, http, manager >>
    /\ UNCHANGED core_vars

\* Line 155: the loop's test, made after every pass.
flush_loop_test(m, session_id) ==
    IF session_id \in DOMAIN m.websockets THEN "sleeping" ELSE "ended"

\* Mutant: line 164 is missing, the buffer is copied and kept.
take_pending_keeping_buffer(m, session_id) ==
    LET buf == dict_get(m._pending_audio, session_id)
        ws == dict_get(m.websockets, session_id)
    IN  IF buf = None \/ ws = None THEN [ b |-> << >>, manager |-> m ]
        ELSE IF buf[1] = << >> THEN [ b |-> << >>, manager |-> m ]
        ELSE [ b |-> buf[1], manager |-> m ]

\* Lines 157-164: what the loop takes from the pending buffer on waking, and
\* what it leaves there.
take_pending(m, session_id) ==
    LET buf == dict_get(m._pending_audio, session_id)
        ws == dict_get(m.websockets, session_id)
    IN  IF buf = None \/ ws = None THEN [ b |-> << >>, manager |-> m ]
        ELSE IF buf[1] = << >> THEN [ b |-> << >>, manager |-> m ]
        ELSE [ b |-> buf[1],
               manager |-> [ m EXCEPT !._pending_audio[session_id] = << >> ] ]

\* Lines 156-166: asyncio.sleep returns.  A cancelled task ends here (line
\* 172); otherwise an empty buffer means `continue`, and a filled one is
\* copied, replaced by an empty one, and its send is started.
RtFlushWakes(session_id) ==
    /\ scenario = "realtime"
    /\ sockets[session_id].handler # "none"
    /\ sockets[session_id].flush.pc = "sleeping"
    /\ LET flush == sockets[session_id].flush
           taken == take_pending(manager, session_id)
       IN  IF flush.cancelled
           THEN /\ sockets' = [ sockets EXCEPT ![session_id].flush.pc = "ended" ]
                /\ manager' = manager
           ELSE /\ manager' = taken.manager
                /\ sockets' = [ sockets EXCEPT ![session_id].flush =
                        IF taken.b = << >>
                        THEN [ @ EXCEPT !.pc = flush_loop_test(manager, session_id) ]
                        ELSE [ @ EXCEPT !.pc = "sending", !.b = taken.b ] ]
    /\ UNCHANGED << scenario, classified, cli, http >>
    /\ UNCHANGED core_vars

\* Lines 165-171: ws.send_text returns or raises.  A send that raises leaves
\* the loop (line 171); a cancelled task ends at this await, whether or not
\* the message went out.
RtFlushSent(session_id) ==
    /\ scenario = "realtime"
    /\ sockets[session_id].handler # "none"
    /\ sockets[session_id].flush.pc = "sending"
    /\ \E send_outcome \in SendOutcomes :
        LET flush == sockets[session_id].flush
            message == [ type |-> "audio", audio |-> b64encode(flush.b) ]
        IN  sockets' = [ sockets EXCEPT ![session_id] =
                [ @ EXCEPT !.ws_sent = IF send_outcome = "ok" THEN Append(@, message) ELSE @,
                           !.flush = [ @ EXCEPT
                               !.pc = IF flush.cancelled \/ send_outcome = "raises"
                                      THEN "ended"
                                      ELSE flush_loop_test(manager, session_id),
                               !.b = << >>,
                               !.failed = send_outcome = "raises" ] ] ]
    /\ UNCHANGED << scenario, classified, cli, http, manager >>
    /\ UNCHANGED core_vars

RtNext ==
    \E session_id \in SessionIds :
        \/ RtConnect(session_id)
        \/ RtReceive(session_id)
        \/ RtClientDisconnects(session_id)
        \/ RtDisconnectCompletes(session_id)
        \/ RtDisconnectUnknown(session_id)
        \/ RtSessionEvent(session_id)
        \/ RtProcessEnds(session_id)
        \/ RtFlushWakes(session_id)
        \/ RtFlushSent(session_id)

RtSpec == InitRealtime /\ [][RtNext]_vars

\* The relay alone: clients that connect and disconnect and send nothing.
RtRelayNext ==
    \E session_id \in SessionIds :
        \/ RtConnect(session_id)
        \/ RtClientDisconnects(session_id)
        \/ RtDisconnectCompletes(session_id)
        \/ RtSessionEvent(session_id)
        \/ RtProcessEnds(session_id)
        \/ RtFlushWakes(session_id)
        \/ RtFlushSent(session_id)

\* The event loop runs every task that is ready: a sleep that is over and a
\* send that has completed resume the flush loop.
RtFairness ==
    \A session_id \in SessionIds :
        /\ WF_vars(RtFlushWakes(session_id))
        /\ WF_vars(RtFlushSent(session_id))

RtRelaySpec == InitRealtime /\ [][RtRelayNext]_vars /\ RtFairness

(***************************************************************************)
(* Properties of the layers built on the core.                             *)
(***************************************************************************)
\* C24: two profiles with the same set of skill names and the same custom
\* instructions have their assembled instructions classified to the same
\* response, whatever their names, descriptions, intensities and focuses
\* and whatever the user inputs.
C24_ClassificationIgnoresIdentity ==
    ( /\ classified.pc = "done"
      /\ classified.first.skill_domains = classified.second.skill_domains
      /\ classified.first.custom_instructions = classified.second.custom_instructions )
    => classified.first_response = classified.second_response

\* A named LEGENDARY analytical profile and an anonymous BASIC one, both with
\* the communication module, asked different questions: both get the
\* communication_expert response.
C24_Witness ==
    /\ classified.pc = "done"
    /\ classified.first.name = "Analytical Master"
    /\ classified.first.intensity = TrainingIntensity.LEGENDARY
    /\ classified.second.name = "Plain"
    /\ classified.second.intensity = TrainingIntensity.BASIC
    /\ classified.first.focus /= classified.second.focus
    /\ classified.first.skill_domains = { "communication", "invalid_domain" }
    /\ classified.second.skill_domains = classified.first.skill_domains
    /\ classified.first.custom_instructions = None
    /\ classified.second.custom_instructions = None
    /\ classified.first_input /= classified.second_input
    /\ classified.first_response = response_communication_expert
    /\ classified.second_response = response_communication_expert

\* A command was invoked with a profile name that is not a key of the registry.
GivenUnknownName ==
    /\ cli.pc /= "idle"
    /\ cli.profile /= None
    /\ cli.profile[1] \notin { PROFILE_NAMES[k] : k \in 1..Len(PROFILE_NAMES) }

\* The console shows the lookup error for `name`: the name and the six valid ones.
ShowsLookupError(name) ==
    \E k \in 1..Len(cli.console) :
        /\ cli.console[k].kind = "error"
        /\ StartsWith(cli.console[k].text, "Error: ")
        /\ Contains("Unknown profile '" \o name \o "'", cli.console[k].text)
        /\ \A j \in 1..Len(PROFILE_NAMES) : Contains(PROFILE_NAMES[j], cli.console[k].text)

\* The command printed the lookup error and returned: no agent, no run, no session.
RecoveredAtBoundary ==
    /\ ShowsLookupError(cli.profile[1])
    /\ cli.created = << >>
    /\ cli.agent = None
    /\ cli.runs = << >>
    /\ cli.session = "none"
    /\ cli.pc = "done"
    /\ cli.exit_code = Some(0)

\* C21 as stated: the chat and demo commands given a name outside the registry
\* print an error message containing the lookup error, create no agent, run no
\* agent, start no session and complete with exit code 0.
C21_UnknownProfileRecoveredForAnyName == GivenUnknownName => RecoveredAtBoundary

\* C21 as amended: the same, for the chat command given any name outside the
\* registry and for the demo command given a non-empty one (demo with an empty
\* profile option runs the full demonstration, as if no profile were given).
C21_UnknownProfileRecovered ==
    ( GivenUnknownName /\ (cli.command = "chat" \/ cli.profile[1] /= "") )
    => RecoveredAtBoundary

C21_Witness ==
    /\ GivenUnknownName
    /\ cli.command = "chat"
    /\ cli.profile = Some("invalid_profile")
    /\ cli.message = Some("test")
    /\ RecoveredAtBoundary

\* Number of entries of a sequence that satisfy Test.
CountIn(seq, Test(_)) == Cardinality({ k \in 1..Len(seq) : Test(seq[k]) })

RunFailed(run) == run.outcome /= "ok"

IsErrorLine(line) == line.kind = "error"

\* C22: every exception raised by an agent run (single message, demo, or
\* interactive session) is caught and printed: the console holds one error
\* line per failed run, the command never ends with a non-zero exit code, and
\* right after a run of an interactive session, failed or not, the session is
\* open at its next prompt.
C22_BackendFailureCaught ==
    ( cli.pc /= "idle" /\ ~GivenUnknownName ) =>
        /\ CountIn(cli.console, IsErrorLine) = CountIn(cli.runs, RunFailed)
        /\ \A k \in 1..Len(cli.runs) :
              RunFailed(cli.runs[k]) =>
                  \E j \in 1..Len(cli.console) :
                      cli.console[j] = PrintedError(cli.runs[k].outcome)
        /\ cli.exit_code \in { None, Some(0) }
        /\ cli.pc = "done" => cli.exit_code = Some(0)
        /\ ( cli.session /= "none" /\ cli.prompts > 0 /\ Len(cli.runs) = cli.prompts )
           => ( cli.pc = "session:prompt" /\ cli.session = "open" )

\* A session whose first run raised and whose second run succeeded.
C22_Witness ==
    /\ cli.pc = "session:prompt"
    /\ cli.session = "open"
    /\ Len(cli.runs) = 2
    /\ cli.runs[1].outcome = "RuntimeError"
    /\ cli.runs[2].outcome = "ok"
    /\ cli.console[Len(cli.console)] = Printed("panel", "result.final_output")

ChatWithKnownProfile ==
    cli.pc /= "idle" /\ cli.command = "chat" /\ ~GivenUnknownName

\* The three modes of the chat command, `given` telling whether a message
\* counts as given.
ModeSelection(given) ==
    /\ given =>
          /\ cli.session = "none"
          /\ Len(cli.runs) <= 1
          /\ cli.pc = "done" => Len(cli.runs) = 1
    /\ ( ~given /\ cli.no_interactive ) =>
          /\ cli.runs = << >>
          /\ cli.session = "none"
          /\ cli.pc = "done"
    /\ cli.session /= "none" => ( ~given /\ ~cli.no_interactive )
    /\ ( ~given /\ ~cli.no_interactive ) => cli.session /= "none"

\* C23 as stated: for a valid profile, when a message is given exactly one
\* agent run is performed and no session is started; when none is given and
\* --no-interactive is set no run is performed and the command completes; a
\* session is started only when no message is given and interactive mode is
\* not disabled.
C23_ModeSelectionByPresence ==
    ChatWithKnownProfile => ModeSelection(cli.message /= None)

\* C23 as amended: the same with "a message is given" read as "a non-empty
\* message is given": an empty message counts as none.
C23_ModeSelection ==
    ChatWithKnownProfile => ModeSelection(TruthyStr(cli.message))

C23_Witness ==
    /\ ChatWithKnownProfile
    /\ cli.message = Some("test")
    /\ ~cli.no_interactive
    /\ cli.pc = "done"
    /\ Len(cli.runs) = 1
    /\ cli.runs[1].input = "test"
    /\ cli.session = "none"

\* 'quit' or 'exit', ignoring case.
IsQuitWord(w) == \E q \in { "quit", "exit" } : lower(w) = q

\* The inputs the session sent to the agent, in order.
SentToAgent == [ k \in 1..Len(cli.runs) |-> cli.runs[k].input ]

\* C30: in an interactive session every input typed before the first quit
\* word is sent to the agent exactly once and in order, the quit word is not
\* sent, and the session ends right after it, or on keyboard interrupt,
\* without another prompt.
C30_SessionForwardsUntilQuit ==
    ( cli.pc /= "idle" /\ cli.session /= "none" ) =>
        LET n == Len(cli.typed)
            stopped == n > 0 /\ IsQuitWord(cli.typed[n])
        IN  /\ \A k \in 1..(n - 1) : ~IsQuitWord(cli.typed[k])
            /\ SentToAgent = IF stopped \/ cli.pc = "session:run"
                             THEN SubSeq(cli.typed, 1, n - 1) ELSE cli.typed
            /\ stopped => ( cli.session = "ended" /\ cli.pc = "done" )
            /\ cli.session \in { "ended", "interrupted" } => cli.pc = "done"
            /\ cli.session = "ended" => stopped
            /\ cli.prompts = n + (IF cli.session = "interrupted" THEN 1 ELSE 0)

C30_Witness ==
    /\ cli.pc = "done"
    /\ cli.session = "ended"
    /\ cli.typed = << "hello", "quit now", "Exit" >>
    /\ SentToAgent = << "hello", "quit now" >>

DoneChunk == "data: [DONE]\n\n"

IsErrorChunk(chunk) == StartsWith(chunk, "data: {\"error\": ")

IsDoneChunk(chunk) == chunk = DoneChunk

\* A body of POST /chat/stream has been streamed to its end.
StreamedBody == http.pc = "done" /\ http.route = "/chat/stream" /\ http.status = Some(200)

\* C28: every body streamed by POST /chat/stream ends with 'data: [DONE]',
\* emitted once and last, whether the agent's stream completes or raises; when
\* it raises, exactly one error chunk is emitted, immediately before '[DONE]',
\* and no event chunk follows it.  While the body is being streamed no
\* '[DONE]' has been emitted.
C28_StreamEndsWithDone ==
    ( http.pc /= "idle" /\ http.route = "/chat/stream" ) =>
        LET n == Len(http.chunks)
        IN  /\ StreamedBody =>
                  /\ n >= 1
                  /\ http.chunks[n] = DoneChunk
                  /\ CountIn(http.chunks, IsDoneChunk) = 1
                  /\ IF http.raised /= None
                     THEN /\ n >= 2
                          /\ IsErrorChunk(http.chunks[n - 1])
                          /\ CountIn(http.chunks, IsErrorChunk) = 1
                          /\ n = http.n_events + 2
                     ELSE /\ CountIn(http.chunks, IsErrorChunk) = 0
                          /\ n = http.n_events + 1
            /\ ~StreamedBody => CountIn(http.chunks, IsDoneChunk) = 0

\* Two events were sent, then the stream raised.
C28_Witness ==
    /\ StreamedBody
    /\ http.raised = Some("RuntimeError")
    /\ http.chunks = << "data: delta\n\n", "data: RunItemStreamEvent(...)\n\n",
                        "data: {\"error\": \"RuntimeError\"}\n\n", "data: [DONE]\n\n" >>

\* C29: POST /chat responds with status 400 if and only if the requested
\* profile is not in the registry; an error raised while running the agent,
\* of whatever class, gives status 500.
C29_ChatStatusDistinguishes ==
    ( http.pc = "done" /\ http.route = "/chat" ) =>
        /\ http.status = Some(400)
             <=> http.profile \notin { PROFILE_NAMES[k] : k \in 1..Len(PROFILE_NAMES) }
        /\ ( http.run /= None /\ http.run /= Some("ok") ) => http.status = Some(500)

(***************************************************************************)
(* The realtime websocket server (examples/realtime/app/server.py).        *)
(***************************************************************************)

ManagerDicts ==
    { "active_sessions", "session_contexts", "websockets", "_pending_audio",
      "_audio_flush_tasks" }

\* The dicts of manager m that have the session id as a key.
RegisteredIn(m, session_id) == { field \in ManagerDicts : session_id \in DOMAIN m[field] }

\* C25: whenever the receive loop of websocket_endpoint has ended, by client
\* disconnect or by any error while receiving or handling a message, the
\* session id is registered in none of the manager's dicts.
C25_EndedHandlerLeavesNoSession ==
    \A session_id \in SessionIds :
        sockets[session_id].handler = "ended" => RegisteredIn(manager, session_id) = {}

\* A session's handler has ended through `except WebSocketDisconnect`.
C25_DisconnectedSessionRemoved ==
    \E session_id \in SessionIds :
        /\ sockets[session_id].handler = "ended"
        /\ sockets[session_id].ended_by = "WebSocketDisconnect"
        /\ RegisteredIn(manager, session_id) = {}

\* The entries manager m holds for a session id, dict by dict.
EntriesOf(m, session_id) == [ field \in ManagerDicts |-> dict_get(m[field], session_id) ]

\* The step in which disconnect(session_id), called by the handler, returns.
DisconnectCompletes(session_id) ==
    /\ sockets[session_id].handler = "disconnect"
    /\ sockets'[session_id].handler = "ended"

\* The step that is a whole call of disconnect for an id the manager lacks.
DisconnectOfUnknown(session_id) ==
    /\ sockets[session_id].handler = "none"
    /\ sockets'[session_id].handler = "none"
    /\ sockets'[session_id] # sockets[session_id]

\* C27: when disconnect(session_id) completes, the id is a key of none of
\* the five dicts, the session context has been exited, the flush task has
\* been cancelled, and the entries of every other id are as before; a
\* disconnect of an unknown id changes nothing and raises nothing.
C27_DisconnectPostcondition ==
    [][ /\ \A session_id \in SessionIds :
            DisconnectCompletes(session_id) =>
                /\ RegisteredIn(manager', session_id) = {}
                /\ sockets'[session_id].ended_by = "WebSocketDisconnect"
                /\ sockets'[session_id].context = "exited"
                /\ sockets'[session_id].flush.cancelled
                /\ \A other \in SessionIds \ { session_id } :
                    /\ EntriesOf(manager', other) = EntriesOf(manager, other)
                    /\ sockets'[other] = sockets[other]
        /\ \A session_id \in SessionIds :
            DisconnectOfUnknown(session_id) =>
                /\ manager' = manager
                /\ sockets'[session_id].disconnect_raised = << "" >>
                /\ \A other \in SessionIds \ { session_id } :
                    sockets'[other] = sockets[other] ]_vars

\* One session has been disconnected while the other is registered with
\* audio pending.
C27_Witness ==
    \E session_id \in SessionIds, other \in SessionIds :
        /\ sockets[session_id].handler = "ended"
        /\ sockets[session_id].ended_by = "WebSocketDisconnect"
        /\ sockets[session_id].flush.cancelled
        /\ RegisteredIn(manager, session_id) = {}
        /\ RegisteredIn(manager, other) = ManagerDicts
        /\ manager._pending_audio[other] # << >>

\* base64.b64decode, the inverse the browser applies to a payload.
b64_index(c) == CHOOSE k \in 0..63 : b64_char(k) = c

RECURSIVE b64decode(_)
b64decode(s) ==
    IF Len(s) = 0 THEN << >>
    ELSE LET at(j) == SubSeq(s, j, j)
             n1 == b64_index(at(1))
             n2 == b64_index(at(2))
             b1 == n1 * 4 + n2 \div 16
         IN  IF at(3) = "=" THEN << b1 >>
             ELSE LET n3 == b64_index(at(3))
                      b2 == (n2 % 16) * 16 + n3 \div 4
                  IN  IF at(4) = "=" THEN << b1, b2 >>
                      ELSE << b1, b2, (n3 % 4) * 64 + b64_index(at(4)) >>
                               \o b64decode(SubSeq(s, 5, Len(s)))

\* The audio bytes of the messages of type "audio" in a websocket's traffic,
\* concatenated in the order sent.
RECURSIVE AudioSent(_)
AudioSent(messages) ==
    IF messages = << >> THEN << >>
    ELSE (IF Head(messages).type = "audio" THEN b64decode(Head(messages).audio) ELSE << >>)
             \o AudioSent(Tail(messages))

IsPrefix(a, b) == Len(a) <= Len(b) /\ SubSeq(b, 1, Len(a)) = a

Connected(session_id) == sockets[session_id].handler # "none"

\* Sends succeed and the session stays connected.
Relaying(session_id) ==
    /\ Connected(session_id)
    /\ session_id \in DOMAIN manager.websockets
    /\ session_id \in DOMAIN manager._pending_audio
    /\ ~sockets[session_id].flush.failed

\* Nothing lost, duplicated or reordered: what was sent is a prefix of what
\* was received, and while the session relays, what was received is what was
\* sent, then what is being sent, then what is pending.
RelayInvariant ==
    \A session_id \in SessionIds :
        Connected(session_id) =>
            /\ IsPrefix(AudioSent(sockets[session_id].ws_sent), sockets[session_id].received)
            /\ Relaying(session_id) =>
                    sockets[session_id].received =
                        AudioSent(sockets[session_id].ws_sent)
                            \o sockets[session_id].flush.b
                            \o manager._pending_audio[session_id]

\* No session receives more audio bytes than this: AudioData gives three
\* bytes to two events.
MaxAudioBytes == (3 * MaxSessionEvents + 1) \div 2

\* Every received byte is eventually sent, unless a send fails or the
\* session is disconnected.
EventuallySent ==
    \A session_id \in SessionIds, n \in 1..MaxAudioBytes :
        (Connected(session_id) /\ Len(sockets[session_id].received) >= n)
            ~> \/ ~Relaying(session_id)
               \/ Len(AudioSent(sockets[session_id].ws_sent)) >= n

\* C26: under every interleaving of the event-processing task and the flush
\* loop, audio events are buffered and never forwarded one by one, the audio
\* the flush loop has sent is a prefix of the audio received, and every byte
\* received is eventually sent exactly once while sends succeed and the
\* session stays connected.
C26_AudioRelay == []RelayInvariant /\ EventuallySent

\* Two audio events were coalesced into one message, which was sent.
C26_Witness ==
    \E session_id \in SessionIds :
        /\ Connected(session_id)
        /\ Relaying(session_id)
        /\ sockets[session_id].audio_events = 2
        /\ \E k \in 1..Len(sockets[session_id].ws_sent) :
            /\ sockets[session_id].ws_sent[k].type = "audio"
            /\ Len(b64decode(sockets[session_id].ws_sent[k].audio)) = 3
        /\ AudioSent(sockets[session_id].ws_sent) = sockets[session_id].received

====
